---- MODULE Spec2Model ----
(***************************************************************************)
(* Model of the markdown2pdf document-model pipeline:                      *)
(*   Lexer::parse        (src/src/lib/markdown.rs)  characters -> tokens   *)
(*   Pdf::group_tokens   (src/src/lib/pdf.rs)       tokens -> blocks       *)
(*                                                                         *)
(* A character is a one-character string, a string is a sequence of        *)
(* characters.  The cursor position is 0-based as in the source, so the    *)
(* character under the cursor is input[position + 1].                      *)
(***************************************************************************)
EXTENDS Integers, Sequences, FiniteSets, TLC

(***************************************************************************)
(* Bounds of the explored input space.                                     *)
(***************************************************************************)
MaxLen == 3
MaxText == 2
MaxRun == 4
MaxBlank == 2
MaxTokens == 3
MaxHashes == 7

(***************************************************************************)
(* Characters.                                                             *)
(***************************************************************************)
\* '\0', returned by current_char at and beyond the end of the input
NUL == "NUL"
\* the backquote character (a string literal cannot hold it)
Backtick == "BACKTICK"
Digits == {"0", "1", "2", "3", "4", "5", "6", "7", "8", "9"}

\* char::is_whitespace, over the characters the model draws
is_whitespace(c) == c \in {" ", "\t", "\n"}

DigitVal(c) ==
  CASE c = "0" -> 0 [] c = "1" -> 1 [] c = "2" -> 2 [] c = "3" -> 3
    [] c = "4" -> 4 [] c = "5" -> 5 [] c = "6" -> 6 [] c = "7" -> 7
    [] c = "8" -> 8 [] c = "9" -> 9

\* str::parse::<usize> of a non-empty digit string
RECURSIVE ParseUsize(_)
ParseUsize(s) ==
  IF Len(s) = 0 THEN 0
  ELSE 10 * ParseUsize(SubSeq(s, 1, Len(s) - 1)) + DigitVal(s[Len(s)])

\* str::trim
RECURSIVE TrimStart(_)
TrimStart(s) ==
  IF Len(s) > 0 /\ is_whitespace(s[1]) THEN TrimStart(Tail(s)) ELSE s

RECURSIVE TrimEnd(_)
TrimEnd(s) ==
  IF Len(s) > 0 /\ is_whitespace(s[Len(s)])
  THEN TrimEnd(SubSeq(s, 1, Len(s) - 1)) ELSE s

Trim(s) == TrimEnd(TrimStart(s))

\* the slice input[a..b] (0-based, b exclusive)
Slice(inp, a, b) == SubSeq(inp, a + 1, b)

Min(a, b) == IF a < b THEN a ELSE b

(***************************************************************************)
(* Tokens (enum Token).                                                    *)
(***************************************************************************)
Heading(content, level) == [type |-> "Heading", content |-> content, level |-> level]
Emphasis(level, content) == [type |-> "Emphasis", level |-> level, content |-> content]
StrongEmphasis(content) == [type |-> "StrongEmphasis", content |-> content]
Code(language, content) == [type |-> "Code", language |-> language, text |-> content]
BlockQuote(text) == [type |-> "BlockQuote", text |-> text]
\* number: <<>> is None, <<n>> is Some(n)
ListItem(content, ordered, number) ==
  [type |-> "ListItem", content |-> content, ordered |-> ordered, number |-> number]
Link(text, url) == [type |-> "Link", text |-> text, url |-> url]
Image(alt, url) == [type |-> "Image", text |-> alt, url |-> url]
Text(text) == [type |-> "Text", text |-> text]
HtmlComment(text) == [type |-> "HtmlComment", text |-> text]
Newline == [type |-> "Newline"]
HorizontalRule == [type |-> "HorizontalRule"]

(***************************************************************************)
(* Results of the lexer's operations: the cursor after the operation and   *)
(* Ok(Some(token)) / Ok(None) / Err(e) / a panic.                          *)
(***************************************************************************)
OkTok(p, t) == [st |-> "ok", pos |-> p, tok |-> <<t>>, err |-> ""]
OkNone(p) == [st |-> "ok", pos |-> p, tok |-> <<>>, err |-> ""]
Err(p, e) == [st |-> "err", pos |-> p, tok |-> <<>>, err |-> e]
Panic(p) == [st |-> "panic", pos |-> p, tok |-> <<>>, err |-> "index out of bounds"]
\* Result<Vec<Token>, _> of parse_nested_content
OkVec(p, v) == [st |-> "ok", pos |-> p, tok |-> v, err |-> ""]

(***************************************************************************)
(* Lexer helpers.                                                          *)
(***************************************************************************)
current_char(inp, p) == IF p < Len(inp) THEN inp[p + 1] ELSE NUL

is_at_line_start(inp, p) == p = 0 \/ (p - 1 < Len(inp) /\ inp[p] = "\n")

\* skip_whitespace without its test for '\n'
RECURSIVE skip_whitespace_Newlines(_, _)
skip_whitespace_Newlines(inp, p) ==
  IF p < Len(inp) /\ is_whitespace(current_char(inp, p))
  THEN skip_whitespace_Newlines(inp, p + 1)
  ELSE p

RECURSIVE skip_whitespace(_, _)
skip_whitespace(inp, p) ==
  IF p < Len(inp) /\ is_whitespace(current_char(inp, p)) /\ current_char(inp, p) # "\n"
  THEN skip_whitespace(inp, p + 1)
  ELSE p

\* position after the characters up to (not including) the next delimiter
RECURSIVE ScanUntil(_, _, _)
ScanUntil(inp, p, delimiter) ==
  IF p < Len(inp) /\ current_char(inp, p) # delimiter
  THEN ScanUntil(inp, p + 1, delimiter)
  ELSE p

read_until_newline(inp, p) ==
  LET q == ScanUntil(inp, p, "\n") IN [pos |-> q, text |-> Slice(inp, p, q)]

read_until_char(inp, p, delimiter) ==
  LET q == ScanUntil(inp, p, delimiter) IN [pos |-> q, text |-> Slice(inp, p, q)]

\* length of the run of character c at p, read with current_char
RECURSIVE RunLen(_, _, _)
RunLen(inp, p, c) ==
  IF current_char(inp, p) = c THEN 1 + RunLen(inp, p + 1, c) ELSE 0

count_backticks(inp, p) ==
  LET n == RunLen(inp, p, Backtick) IN [count |-> n, pos |-> p + n]

\* the slice input[position..] panics when position > len
is_html_comment_start_panics(inp, p) == p > Len(inp)

is_html_comment_start(inp, p) ==
  /\ p + 3 < Len(inp)
  /\ inp[p + 1] = "<" /\ inp[p + 2] = "!" /\ inp[p + 3] = "-" /\ inp[p + 4] = "-"

is_start_of_special_token(inp, p) ==
  LET ch == current_char(inp, p) IN
    \/ ch \in {"#", "*", "_", Backtick, "[", "!"}
    \/ ch = "<" /\ is_html_comment_start(inp, p)

\* input[position - 1] panics when position - 1 >= len
is_after_special_token_panics(inp, p) == p # 0 /\ p - 1 >= Len(inp)

is_after_special_token(inp, p) == p # 0 /\ inp[p] \in {Backtick, ")"}

check_horizontal_rule(inp, p) ==
  LET count == RunLen(inp, p, "-") IN
    IF current_char(inp, p) = "-" /\ count >= 3
    THEN [is |-> TRUE, pos |-> p + count]
    ELSE [is |-> FALSE, pos |-> p]

RECURSIVE DigitsEnd(_, _)
DigitsEnd(inp, p) ==
  IF p < Len(inp) /\ inp[p + 1] \in Digits THEN DigitsEnd(inp, p + 1) ELSE p

\* None is <<>>, Some(n) is <<n>>
check_ordered_list_marker(inp, p) ==
  LET q == DigitsEnd(inp, p) IN
    IF q < Len(inp) /\ inp[q + 1] = "." /\ q > p
    THEN <<ParseUsize(Slice(inp, p, q))>>
    ELSE <<>>

RECURSIVE get_current_indent_from(_, _)
get_current_indent_from(inp, pos) ==
  IF pos < Len(inp) /\ inp[pos + 1] = " " THEN 1 + get_current_indent_from(inp, pos + 1)
  ELSE IF pos < Len(inp) /\ inp[pos + 1] = "\t" THEN 4 + get_current_indent_from(inp, pos + 1)
  ELSE 0

get_current_indent(inp, p) == get_current_indent_from(inp, p)

(***************************************************************************)
(* Token parsers without recursion.                                        *)
(***************************************************************************)
\* the single-backtick loop of parse_code: up to the closing backtick,
\* which is skipped, or to the end of the input
inline_code(inp, p) ==
  LET q == ScanUntil(inp, p, Backtick) IN
    [pos |-> IF q < Len(inp) THEN q + 1 ELSE q, text |-> Slice(inp, p, q)]

\* the content loop of a fenced block: every backtick run is consumed by
\* count_backticks; a run of another length is dropped and the character
\* after it is pushed ('\0' when the run ends the input)
RECURSIVE fence_content(_, _, _, _)
fence_content(inp, p, start_backticks, content) ==
  IF p >= Len(inp) THEN [pos |-> p, text |-> content]
  ELSE LET cb == count_backticks(inp, p) IN
    IF cb.count = start_backticks THEN [pos |-> cb.pos, text |-> content]
    ELSE fence_content(inp, cb.pos + 1, start_backticks,
                       Append(content, current_char(inp, cb.pos)))

\* "Skip closing backticks if they exist": at most start_backticks of them
skip_closing_backticks(inp, p, start_backticks) ==
  IF p < Len(inp) THEN p + Min(start_backticks, RunLen(inp, p, Backtick)) ELSE p

\* parse_code without the trim of the fenced language and content
parse_code_NoTrim(inp, p) ==
  LET sb == count_backticks(inp, p) IN
    IF sb.count = 1
    THEN LET c == inline_code(inp, sb.pos) IN OkTok(c.pos, Code(<<>>, c.text))
    ELSE LET language == read_until_newline(inp, skip_whitespace(inp, sb.pos))
             body == fence_content(inp, language.pos, sb.count, <<>>)
         IN OkTok(skip_closing_backticks(inp, body.pos, sb.count),
                  Code(language.text, body.text))

parse_code(inp, p) ==
  LET sb == count_backticks(inp, p) IN
    IF sb.count = 1
    THEN LET c == inline_code(inp, sb.pos) IN OkTok(c.pos, Code(<<>>, c.text))
    ELSE LET language == read_until_newline(inp, skip_whitespace(inp, sb.pos))
             body == fence_content(inp, language.pos, sb.count, <<>>)
         IN OkTok(skip_closing_backticks(inp, body.pos, sb.count),
                  Code(Trim(language.text), Trim(body.text)))

parse_blockquote(inp, p) ==
  LET content == read_until_newline(inp, skip_whitespace(inp, p + 1)) IN
    OkTok(content.pos, BlockQuote(content.text))

parse_link(inp, p) ==
  LET text == read_until_char(inp, p + 1, "]")
      q == text.pos + 1
  IN IF current_char(inp, q) = "("
     THEN LET url == read_until_char(inp, q + 1, ")") IN
            OkTok(url.pos + 1, Link(text.text, url.text))
     ELSE OkTok(q, Link(text.text, <<>>))

parse_image(inp, p) ==
  IF current_char(inp, p + 1) = "["
  THEN LET alt == read_until_char(inp, p + 2, "]")
           q == alt.pos + 1
       IN IF current_char(inp, q) = "("
          THEN LET url == read_until_char(inp, q + 1, ")") IN
                 OkTok(url.pos + 1, Image(alt.text, url.text))
          ELSE Err(q, "UnknownToken")
  ELSE Err(p + 1, "UnknownToken")

parse_newline(inp, p) == OkTok(p + 1, Newline)

\* end of a text run: the next newline or start of a special token
RECURSIVE TextEnd(_, _)
TextEnd(inp, p) ==
  IF p < Len(inp) /\ current_char(inp, p) # "\n" /\ ~is_start_of_special_token(inp, p)
  THEN TextEnd(inp, p + 1)
  ELSE p

parse_text(inp, p) ==
  LET lead == p > 0 /\ current_char(inp, p) = " "
      q == TextEnd(inp, IF lead THEN p + 1 ELSE p)
  IN IF q = p THEN Err(p, "UnknownToken") ELSE OkTok(q, Text(Slice(inp, p, q)))

\* position of the first "-->" at or after p, scanned while position + 2 < len
RECURSIVE CommentEnd(_, _)
CommentEnd(inp, p) ==
  IF p + 2 < Len(inp)
     /\ ~(inp[p + 1] = "-" /\ inp[p + 2] = "-" /\ inp[p + 3] = ">")
  THEN CommentEnd(inp, p + 1)
  ELSE p

\* a comment scan that takes the end of the input for the closing marker
parse_html_comment_Lenient(inp, p) ==
  LET start == p + 4
      q == CommentEnd(inp, start)
  IN IF q + 2 < Len(inp)
     THEN OkTok(q + 3, HtmlComment(Slice(inp, start, q)))
     ELSE OkTok(Len(inp), HtmlComment(Slice(inp, start, Len(inp))))

parse_html_comment(inp, p) ==
  LET start == p + 4
      q == CommentEnd(inp, start)
  IN IF q + 2 < Len(inp)
     THEN OkTok(q + 3, HtmlComment(Slice(inp, start, q)))
     ELSE Err(q, "UnexpectedEndOfInput")

\* position after the number and period of an ordered marker
RECURSIVE SkipMarker(_, _)
SkipMarker(inp, p) ==
  IF p < Len(inp) /\ (current_char(inp, p) \in Digits \/ current_char(inp, p) = ".")
  THEN SkipMarker(inp, p + 1)
  ELSE p

(***************************************************************************)
(* The recursive descent: next_token, the nested-content loop, headings,   *)
(* emphasis and list items.  An Err or a panic of an inner call is the     *)
(* result of the outer one (the ? operator, unwinding).                    *)
(***************************************************************************)
RECURSIVE next_token(_, _)
RECURSIVE nested_content_loop(_, _, _, _, _)
RECURSIVE parse_list_item(_, _, _, _)
RECURSIVE list_item_line(_, _, _)
RECURSIVE list_item_nested(_, _, _, _)

\* parse_nested_content: is_delimiter is always |c| c == delimiter
parse_nested_content(inp, p, delimiter) ==
  nested_content_loop(inp, p, delimiter, get_current_indent(inp, p), <<>>)

\* content.push(token) for the result r of next_token()? or parse_list_item()?,
\* then the next iteration of the nested-content loop
nested_push(r, inp, delimiter, initial_indent, content) ==
  IF r.st # "ok" THEN r
  ELSE nested_content_loop(inp, r.pos, delimiter, initial_indent, content \o r.tok)

nested_content_loop(inp, p, delimiter, initial_indent, content) ==
  IF p >= Len(inp) \/ current_char(inp, p) = delimiter THEN OkVec(p, content)
  ELSE IF is_at_line_start(inp, p) /\ get_current_indent(inp, p) > initial_indent
  THEN LET current_indent == get_current_indent(inp, p)
           q == p + current_indent
           c == current_char(inp, q)
           hr == check_horizontal_rule(inp, q)
           nested_list == \/ c \in {"-", "+"} /\ ~hr.is
                          \/ c \in Digits /\ check_ordered_list_marker(inp, q) # <<>>
       IN nested_push(IF nested_list
                      THEN parse_list_item(inp, q, c \in Digits, current_indent)
                      ELSE next_token(inp, hr.pos),
                      inp, delimiter, initial_indent, content)
  ELSE nested_push(next_token(inp, p), inp, delimiter, initial_indent, content)

\* heading_of with the level counted from 0
heading_of_LevelFromZero(r, level) ==
  IF r.st # "ok" THEN r ELSE OkTok(r.pos, Heading(r.tok, level - 1))

\* Ok(Token::Heading(content, level)) of the nested content r
heading_of(r, level) ==
  IF r.st # "ok" THEN r ELSE OkTok(r.pos, Heading(r.tok, level))

parse_heading(inp, p) ==
  heading_of(parse_nested_content(inp, skip_whitespace(inp, p + RunLen(inp, p, "#")), "\n"),
             RunLen(inp, p, "#"))

\* emphasis_of without the synthetic space
emphasis_of_NoSpace(r, inp, delimiter, level) ==
  IF r.st # "ok" THEN r
  ELSE IF RunLen(inp, r.pos, delimiter) < level
  THEN Err(r.pos + RunLen(inp, r.pos, delimiter), "UnknownToken")
  ELSE OkTok(r.pos + level, Emphasis(Min(level, 3), r.tok))

\* emphasis_of without the cap of the level
emphasis_of_NoCap(r, inp, delimiter, level) ==
  IF r.st # "ok" THEN r
  ELSE IF RunLen(inp, r.pos, delimiter) < level
  THEN Err(r.pos + RunLen(inp, r.pos, delimiter), "UnknownToken")
  ELSE OkTok(r.pos + level, Emphasis(level, Append(r.tok, Text(<<" ">>))))

\* emphasis_of that skips the closing delimiters present instead of requiring them
emphasis_of_NoClosingCheck(r, inp, delimiter, level) ==
  IF r.st # "ok" THEN r
  ELSE OkTok(r.pos + Min(level, RunLen(inp, r.pos, delimiter)),
             Emphasis(Min(level, 3), Append(r.tok, Text(<<" ">>))))

\* the synthetic space, the closing check and the token, for the nested content r;
\* the closing loop advances past each delimiter it matches before it returns Err
emphasis_of(r, inp, delimiter, level) ==
  IF r.st # "ok" THEN r
  ELSE IF RunLen(inp, r.pos, delimiter) < level
  THEN Err(r.pos + RunLen(inp, r.pos, delimiter), "UnknownToken")
  ELSE OkTok(r.pos + level,
             Emphasis(Min(level, 3), Append(r.tok, Text(<<" ">>))))

parse_emphasis(inp, p) ==
  emphasis_of(parse_nested_content(inp, p + RunLen(inp, p, current_char(inp, p)),
                                   current_char(inp, p)),
              inp, current_char(inp, p), RunLen(inp, p, current_char(inp, p)))

\* content.push(token) in the first loop of parse_list_item, and its next iteration
line_push(r, inp, content) ==
  IF r.st # "ok" THEN r ELSE list_item_line(inp, r.pos, content \o r.tok)

\* first loop of parse_list_item: the tokens of the marker's line
list_item_line(inp, p, content) ==
  IF p < Len(inp) /\ current_char(inp, p) # "\n"
  THEN line_push(next_token(inp, p), inp, content)
  ELSE OkVec(p, content)

\* content.push(parse_list_item(..)?) in the last loop, and its next iteration
item_push(r, inp, indent_level, content) ==
  IF r.st # "ok" THEN r
  ELSE list_item_nested(inp, r.pos, indent_level, content \o r.tok)

\* last loop of parse_list_item: the more indented lines that follow
list_item_nested(inp, p, indent_level, content) ==
  IF p >= Len(inp) THEN OkVec(p, content)
  ELSE LET current_indent == get_current_indent(inp, p)
           q == p + current_indent
           c == current_char(inp, q)
           hr == check_horizontal_rule(inp, q)
           nested_list == \/ c \in {"-", "+"} /\ ~hr.is
                          \/ c \in Digits /\ check_ordered_list_marker(inp, q) # <<>>
       IN IF current_indent <= indent_level THEN OkVec(p, content)
          ELSE IF nested_list
          THEN item_push(parse_list_item(inp, q, c \in Digits, current_indent),
                         inp, indent_level, content)
          ELSE IF c \in {"-", "+"} \/ c \in Digits
          THEN list_item_nested(inp, hr.pos, indent_level, content)
          ELSE OkVec(q, content)

\* a list item that forgets the number of its marker
item_of_Unnumbered(r, ordered, number) ==
  IF r.st # "ok" THEN r ELSE OkTok(r.pos, ListItem(r.tok, ordered, <<>>))

\* Ok(Token::ListItem { content, ordered, number }) of the collected content r
item_of(r, ordered, number) ==
  IF r.st # "ok" THEN r ELSE OkTok(r.pos, ListItem(r.tok, ordered, number))

\* "Move to next line if exists", then the nested lines
item_after_line(line, inp, ordered, number, indent_level) ==
  IF line.st # "ok" THEN line
  ELSE item_of(list_item_nested(inp,
                                IF line.pos < Len(inp) /\ current_char(inp, line.pos) = "\n"
                                THEN line.pos + 1 ELSE line.pos,
                                indent_level, line.tok),
               ordered, number)

parse_list_item(inp, p, ordered, indent_level) ==
  item_after_line(
    list_item_line(inp,
                   skip_whitespace(inp, IF ordered THEN SkipMarker(inp, p) ELSE p + 1),
                   <<>>),
    inp, ordered,
    IF ordered THEN check_ordered_list_marker(inp, p) ELSE <<>>,
    indent_level)

next_token(inp, p0) ==
  IF is_after_special_token_panics(inp, p0) THEN Panic(p0)
  ELSE LET p == IF is_after_special_token(inp, p0) THEN p0 ELSE skip_whitespace(inp, p0) IN
    IF p >= Len(inp) THEN OkNone(p)
    ELSE LET current == current_char(inp, p)
             is_line_start == is_at_line_start(inp, p)
         IN CASE current = "#" /\ is_line_start -> parse_heading(inp, p)
              [] current \in {"*", "_"} -> parse_emphasis(inp, p)
              [] current = Backtick -> parse_code(inp, p)
              [] current = ">" /\ is_line_start -> parse_blockquote(inp, p)
              [] current \in {"-", "+"} /\ is_line_start ->
                   LET hr == check_horizontal_rule(inp, p) IN
                     IF hr.is THEN OkTok(hr.pos, HorizontalRule)
                     ELSE parse_list_item(inp, p, FALSE, 0)
              [] current \in Digits /\ is_line_start ->
                   IF check_ordered_list_marker(inp, p) # <<>>
                   THEN parse_list_item(inp, p, TRUE, 0)
                   ELSE parse_text(inp, p)
              [] current = "[" -> parse_link(inp, p)
              [] current = "!" -> parse_image(inp, p)
              [] current = "<" /\ is_html_comment_start(inp, p) -> parse_html_comment(inp, p)
              [] current = "\n" -> parse_newline(inp, p)
              [] OTHER -> parse_text(inp, p)

(***************************************************************************)
(* Blocks (enum Block of pdf.rs).                                          *)
(***************************************************************************)
BlockHeading(content, level) == [type |-> "Heading", content |-> content, level |-> level]
BlockParagraph(content) == [type |-> "Paragraph", content |-> content]
BlockList(items) == [type |-> "List", items |-> items]
BlockBlockQuote(content) == [type |-> "BlockQuote", content |-> content]
BlockCodeBlock(language, content) ==
  [type |-> "CodeBlock", language |-> language, text |-> content]
BlockHorizontalRule == [type |-> "HorizontalRule"]
BlockEmptyLine == [type |-> "EmptyLine"]

(***************************************************************************)
(* The inputs explored.                                                    *)
(***************************************************************************)
Seqs(S, n) == UNION {[1..k -> S] : k \in 0..n}

RECURSIVE Rep(_, _)
Rep(c, n) == IF n = 0 THEN <<>> ELSE <<c>> \o Rep(c, n - 1)

\* every character the lexer dispatches on, and a letter
Alphabet ==
  {"a", " ", "\t", "\n", "#", "*", "_", Backtick, ">", "-", "+", "1", ".",
   "[", "]", "(", ")", "!", "<"}

\* plain text: non-empty, no newline, no special character, no leading whitespace
PlainChars == {"a", "b", " "}
PlainTexts == {t \in Seqs(PlainChars, MaxText) : Len(t) > 0 /\ t[1] # " "}

\* plain text with the characters that are markers only at the start of a line
InlineChars == PlainChars \cup {"-", "1", "."}
InlineTexts == {t \in Seqs(InlineChars, MaxText) : Len(t) > 0 /\ t[1] # " "}

HeadingInputs ==
  {Rep("#", n) \o <<" ">> \o t : n \in 1..MaxHashes, t \in InlineTexts}

\* an opening run, text, a closing run of any length, trailing text; after
\* nothing or after a text run
EmphasisInput(pre, d, l, t, k, w) == pre \o Rep(d, l) \o t \o Rep(d, k) \o w
EmphasisTails == {<<>>, <<" ">>, <<"a">>}
EmphasisInputs ==
  {EmphasisInput(pre, d, l, t, k, w) :
     pre \in {<<>>, <<"a", " ">>}, d \in {"*", "_"}, l \in 1..MaxRun,
     t \in InlineTexts, k \in 0..MaxRun, w \in EmphasisTails}

\* two text runs and the line breaks between them
BreakInput(t, k, u) == t \o Rep("\n", k) \o u
BreakInputs == {BreakInput(t, k, u) : t \in PlainTexts, k \in 1..(MaxBlank + 1), u \in PlainTexts}

\* text with '!' and line breaks
TextChars == {"a", ".", " ", "!", "\n"}
TextInputs == Seqs(TextChars, MaxLen + 1)

\* a fenced block between blank lines
LangTexts == Seqs({"r", " "}, MaxText)
CodeTexts == Seqs({"c", " ", "\n"}, MaxText)
Fenced(k, lang, code) ==
  Rep(Backtick, k) \o lang \o <<"\n">> \o code \o <<"\n">> \o Rep(Backtick, k)
FencedInputs ==
  {Rep("\n", i) \o Fenced(k, lang, code) \o Rep("\n", j) :
     i \in 0..MaxBlank, j \in 0..MaxBlank, k \in 2..MaxRun,
     lang \in LangTexts, code \in CodeTexts}

\* the documents of the specification's examples and of the lexer's tests
SampleInputs ==
  { <<"#", " ", "T", "i", "t", "l", "e", "\n", "\n",
      "S", "o", "m", "e", " ", "*", "t", "e", "x", "t", "*", ".">>,
    <<"A", "\n", "\n", "B">>,
    <<"A", "\n", "B">>,
    <<"-", " ", "A", "\n", "-", " ", "B">>,
    <<"1", ".", " ", "A", "\n", "2", ".", " ", "B">>,
    <<"-", " ", "A", "\n", " ", " ", "-", " ", "N", "\n", "-", " ", "B">>,
    <<"-", " ", "A", "\n", "\n", "-", " ", "B">>,
    <<"x", "\n", "-", " ", "A", "\n", "-", " ", "B", "\n", "y">>,
    <<">", " ", "q", "\n", "-", "-", "-", "\n", "[", "l", "]", "(", "u", ")">>,
    <<"!", "[", "i", "]", "(", "u", ")", "\n", "<", "!", "-", "-", "c", "-", "-", ">">>,
    <<"-", " ", "A", "\n", "<", "!", "-", "-", "c", "-", "-", ">", "\n", "-", " ", "B">>,
    <<"*", "e", "m", "p", "h", "*", " ", " ">> }

\* a comment: the opening marker, text, and the closing marker or the end
CommentOpen == <<"<", "!", "-", "-">>
CommentClose == <<"-", "-", ">">>
CommentChars == {"c", "-", ">", "\n"}
CommentContexts ==
  { << <<>>, <<>> >>, << <<"a">>, <<Text(<<"a">>)>> >>,
    << <<"a", "\n">>, <<Text(<<"a">>), Newline>> >> }
CommentTails ==
  { << <<>>, <<>> >>, << <<"b">>, <<Text(<<"b">>)>> >>, << <<"\n">>, <<Newline>> >> }
CommentInputs ==
  {pre[1] \o CommentOpen \o c \o close \o post[1] :
     pre \in CommentContexts, c \in Seqs(CommentChars, MaxText),
     close \in {<<>>, CommentClose}, post \in CommentTails}

\* links and images, whole and cut short
LinkInputs ==
  { <<"[", "l", "]", "(", "u", ")">>, <<"[", "l", "]">>, <<"[", "l">>, <<"[">>,
    <<"[", "l", "]", "(", "u">>, <<"[", "l", "]", "(">>,
    <<"!", "[", "i", "]", "(", "u", ")">>, <<"!", "[", "i", "]">>, <<"!", "[", "i">>,
    <<"!", "[">>, <<"!", "[", "i", "]", "(", "u">>, <<"!", "[", "i", "]", "(">>,
    <<"a", " ", "[", "l">>, <<"a", " ", "[", "l", "]", "(", "u">> }

\* list items on two or three lines: <<indentation, columns>> and
\* <<marker, ordered, number>>
Indents == { << <<>>, 0 >>, << <<" ">>, 1 >>, << <<" ", " ">>, 2 >>, << <<"\t">>, 4 >> }
Markers == { << <<"-", " ">>, FALSE, <<>> >>, << <<"1", ".", " ">>, TRUE, <<1>> >> }
FirstLine == <<"-", " ", "A", "\n">>
TwoLines(i2, m2) == FirstLine \o i2[1] \o m2[1] \o <<"N">>
ThreeLines(i2, m2, i3) == TwoLines(i2, m2) \o <<"\n">> \o i3[1] \o <<"-", " ", "M">>
ListInputs ==
  {TwoLines(i2, m2) : i2 \in Indents, m2 \in Markers}
    \cup {ThreeLines(i2, m2, i3) : i2 \in Indents, m2 \in Markers, i3 \in Indents}

\* ordered items: <<digit run, value>>, at the top level and nested
Numbers ==
  { << <<"1">>, 1 >>, << <<"2">>, 2 >>, << <<"0">>, 0 >>, << <<"1", "0">>, 10 >>,
    << <<"0", "2">>, 2 >>, << <<"2", "1">>, 21 >> }
OrderedLine(n) == n[1] \o <<".", " ", "a">>
OrderedInputs ==
  {OrderedLine(n) : n \in Numbers}
    \cup {OrderedLine(n) \o <<"\n">> \o OrderedLine(m) : n \in Numbers, m \in Numbers}
    \cup {OrderedLine(n) \o <<"\n", " ", " ">> \o OrderedLine(m) : n \in Numbers, m \in Numbers}
    \cup {<<"-", " ", "A", "\n", " ", " ">> \o OrderedLine(n) : n \in Numbers}

\* lines that the line-start dispatch of next_token recognizes, <<line, token>>,
\* after an indentation, at the start of the input and after a line of text
MarkerLines ==
  { << <<"#", " ", "h">>, Heading(<<Text(<<"h">>)>>, 1) >>,
    << <<">", " ", "q">>, BlockQuote(<<"q">>) >>,
    << <<"-", " ", "a">>, ListItem(<<Text(<<"a">>)>>, FALSE, <<>>) >>,
    << <<"+", " ", "a">>, ListItem(<<Text(<<"a">>)>>, FALSE, <<>>) >>,
    << <<"1", ".", " ", "a">>, ListItem(<<Text(<<"a">>)>>, TRUE, <<1>>) >> }
LineIndents == { <<>>, <<" ">>, <<" ", " ">>, <<"\t">> }
LineContexts == { << <<>>, <<>> >>, << <<"x", "\n">>, <<Text(<<"x">>), Newline>> >> }
IndentedInputs ==
  {pre[1] \o ind \o l[1] : pre \in LineContexts, ind \in LineIndents, l \in MarkerLines}

\* a nested line under "- A" indented by one tab or by four spaces
TabIndents == { <<"\t">>, <<" ", " ", " ", " ">> }
NestedTexts == { <<"N">>, <<"N", "o", "p", "q">> }
TabInputs ==
  {FirstLine \o ind \o m[1] \o t : ind \in TabIndents, m \in Markers, t \in NestedTexts}

\* a fenced block of k backticks whose one line of code holds a run of j others
FenceRuns == {r \in (2..MaxRun) \X (0..(MaxRun + 1)) : r[1] # r[2]}
FenceRunCode(j) == <<"a">> \o Rep(Backtick, j) \o <<"b">>
FenceRunInput(k, j) ==
  Rep(Backtick, k) \o <<"\n">> \o FenceRunCode(j) \o <<"\n">> \o Rep(Backtick, k)
FenceRunInputs == {FenceRunInput(r[1], r[2]) : r \in FenceRuns}

\* an emphasis run left open at the end of the input, whose nested content is a
\* line break and a tab-indented empty line
BrokenRunInputs ==
  { EmphasisInput(pre, d, l, <<"\n", "\t">>, 0, <<>>) :
    pre \in {<<>>, <<"a", " ">>}, d \in {"*", "_"}, l \in 1..MaxRun }

Inputs ==
  Seqs(Alphabet, MaxLen) \cup HeadingInputs \cup EmphasisInputs \cup BreakInputs
    \cup TextInputs \cup FencedInputs \cup SampleInputs \cup CommentInputs
    \cup LinkInputs \cup ListInputs \cup OrderedInputs \cup IndentedInputs
    \cup TabInputs \cup FenceRunInputs \cup BrokenRunInputs

\* token vectors handed to Pdf::new directly
TokenPool ==
  { Text(<<"a">>), Newline, HorizontalRule,
    ListItem(<<Text(<<"A">>)>>, FALSE, <<>>),
    ListItem(<<Text(<<"B">>)>>, TRUE, <<1>>),
    Heading(<<Text(<<"h">>)>>, 1),
    Emphasis(1, <<Text(<<"e">>), Text(<<" ">>)>>),
    Code(<<>>, <<"c">>), Code(<<"r">>, <<"c", "\n", "d">>),
    BlockQuote(<<"q">>), Link(<<"l">>, <<"u">>),
    Image(<<"i">>, <<"u">>), HtmlComment(<<"c">>) }

TokenVectors == Seqs(TokenPool, MaxTokens)

(***************************************************************************)
(* Styling (styling.rs): alignments, descriptors and the built-in table.   *)
(* An Option is a sequence of no or one value; an f32 is written in tenths *)
(* (0.8 is 8), and every spacing explored is a multiple of 0.5, which the  *)
(* cast from f64 to f32 keeps exactly.                                     *)
(***************************************************************************)
None == <<>>
Some(x) == <<x>>

TextAlignments == {"Left", "Center", "Right", "Justify"}

\* MdPdfFont::find_match(family).file(): every family name maps to Roboto
find_match_file(family) == "Roboto"

\* BasicTextStyle::new; the spacings are unwrap_or(0.0)
BasicTextStyle(size, text_color, before_spacing, after_spacing, alignment, font_family, bold, italic, underline, strikethrough, background_color) ==
  [ size |-> size,
    text_color |-> text_color,
    before_spacing |-> IF before_spacing = None THEN 0 ELSE before_spacing[1],
    after_spacing |-> IF after_spacing = None THEN 0 ELSE after_spacing[1],
    alignment |-> alignment,
    font_family |-> font_family,
    bold |-> bold,
    italic |-> italic,
    underline |-> underline,
    strikethrough |-> strikethrough,
    background_color |-> background_color ]

\* impl Default for BasicTextStyle
DefaultBasicTextStyle ==
  BasicTextStyle(12, None, None, None, None, None, FALSE, FALSE, FALSE, FALSE, None)

Black == <<0, 0, 0>>
Grey == <<128, 128, 128>>

\* Margins of StyleMatch::default()
DefaultMargins == [top |-> 80, right |-> 80, bottom |-> 80, left |-> 80]

\* impl Default for StyleMatch
DefaultStyleMatch ==
  [ margins |-> DefaultMargins,
    heading_1 |-> BasicTextStyle(14, Some(Black), Some(8), Some(5), Some("Center"),
                                 None, TRUE, FALSE, FALSE, FALSE, None),
    heading_2 |-> BasicTextStyle(12, Some(Black), Some(8), Some(5), Some("Left"),
                                 None, TRUE, FALSE, FALSE, FALSE, None),
    heading_3 |-> BasicTextStyle(10, Some(Black), Some(8), Some(5), Some("Left"),
                                 None, TRUE, FALSE, FALSE, FALSE, None),
    emphasis |-> BasicTextStyle(8, Some(Black), None, None, None,
                                None, FALSE, TRUE, FALSE, FALSE, None),
    strong_emphasis |-> BasicTextStyle(8, Some(Black), None, None, None,
                                       None, TRUE, FALSE, FALSE, FALSE, None),
    code |-> BasicTextStyle(8, Some(Grey), Some(4), Some(4), None,
                            Some("Roboto"), FALSE, FALSE, FALSE, FALSE,
                            Some(<<230, 230, 230>>)),
    block_quote |-> BasicTextStyle(8, Some(Grey), None, None, None,
                                   None, FALSE, TRUE, FALSE, FALSE,
                                   Some(<<245, 245, 245>>)),
    list_item |-> BasicTextStyle(8, Some(Black), None, Some(5), None,
                                 None, FALSE, FALSE, FALSE, FALSE, None),
    link |-> BasicTextStyle(8, Some(Grey), None, None, None,
                            None, FALSE, FALSE, TRUE, FALSE, None),
    image |-> BasicTextStyle(8, Some(Black), None, None, Some("Center"),
                             None, FALSE, FALSE, FALSE, FALSE, None),
    text |-> BasicTextStyle(8, Some(Black), None, None, None,
                            None, FALSE, FALSE, FALSE, FALSE, None),
    horizontal_rule |-> BasicTextStyle(8, Some(Black), None, Some(5), None,
                                       None, FALSE, FALSE, FALSE, FALSE, None) ]

(***************************************************************************)
(* Configuration (config.rs) over decoded TOML values.                     *)
(***************************************************************************)
\* toml::Value: a tag and the payload; a table is a function on its keys
TInteger(n) == [t |-> "integer", v |-> n]
TFloat(x) == [t |-> "float", v |-> x]
TString(s) == [t |-> "string", v |-> s]
TBoolean(b) == [t |-> "boolean", v |-> b]
TTable(f) == [t |-> "table", v |-> f]

\* Value::get(key): None on a value that is no table, or without that key
get(value, key) ==
  IF value.t = "table"
  THEN (IF key \in DOMAIN value.v THEN Some(value.v[key]) ELSE None)
  ELSE None

\* Option<&Value>::and_then(|v| v.get(key))
and_then_get(opt, key) == IF opt = None THEN None ELSE get(opt[1], key)

\* Option<&Value>::and_then(|v| v.as_integer()) and its siblings: the payload
\* when the tag is the one asked for
as_type(opt, tag) ==
  IF opt # None /\ opt[1].t = tag THEN Some(opt[1].v) ELSE None

as_integer(opt) == as_type(opt, "integer")
as_float(opt) == as_type(opt, "float")
as_str(opt) == as_type(opt, "string")
as_bool(opt) == as_type(opt, "boolean")

\* a cast that saturates at the ends of 0..255
as_u8_Saturating(n) == IF n > 255 THEN 255 ELSE IF n < 0 THEN 0 ELSE n

\* "as u8" on an i64: the low eight bits
as_u8(n) == n % 256

\* parse_color: the field must be a table with integer r, g and b
parse_color(value, field) ==
  LET color == and_then_get(value, field)
      r == as_integer(and_then_get(color, "r"))
      g == as_integer(and_then_get(color, "g"))
      b == as_integer(and_then_get(color, "b"))
  IN IF r = None \/ g = None \/ b = None THEN None
     ELSE Some(<<as_u8(r[1]), as_u8(g[1]), as_u8(b[1])>>)

\* parse_alignment that gives None for a string that names no alignment
parse_alignment_Strict(value) ==
  LET s == as_str(value) IN
    IF s = None THEN None
    ELSE CASE s[1] = "left" -> Some("Left")
           [] s[1] = "center" -> Some("Center")
           [] s[1] = "right" -> Some("Right")
           [] s[1] = "justify" -> Some("Justify")
           [] OTHER -> None

\* parse_alignment: any other string is Left
parse_alignment(value) ==
  LET s == as_str(value) IN
    IF s = None THEN None
    ELSE CASE s[1] = "left" -> Some("Left")
           [] s[1] = "center" -> Some("Center")
           [] s[1] = "right" -> Some("Right")
           [] s[1] = "justify" -> Some("Justify")
           [] OTHER -> Some("Left")

\* map_font_family
map_font_family(font) == Some(find_match_file(Some(font)))

\* "if let Some(x) = <parsed> { style.field = <stored> }"
or_default(parsed, default) == IF parsed # None THEN parsed[1] ELSE default
some_or_default(parsed, default) == IF parsed # None THEN parsed ELSE default

\* the assignments of parse_style to "style", a copy of base
style_of(style_config, base) ==
  [ size |->
      IF as_integer(get(style_config, "size")) # None
      THEN as_u8(as_integer(get(style_config, "size"))[1])
      ELSE base.size,
    before_spacing |->
      or_default(as_float(get(style_config, "beforespacing")), base.before_spacing),
    after_spacing |->
      or_default(as_float(get(style_config, "afterspacing")), base.after_spacing),
    text_color |->
      some_or_default(parse_color(Some(style_config), "textcolor"), base.text_color),
    background_color |->
      some_or_default(parse_color(Some(style_config), "backgroundcolor"),
                      base.background_color),
    alignment |->
      some_or_default(parse_alignment(get(style_config, "alignment")), base.alignment),
    font_family |->
      IF as_str(get(style_config, "fontfamily")) # None
      THEN map_font_family(as_str(get(style_config, "fontfamily"))[1])
      ELSE base.font_family,
    bold |-> or_default(as_bool(get(style_config, "bold")), base.bold),
    italic |-> or_default(as_bool(get(style_config, "italic")), base.italic),
    underline |-> or_default(as_bool(get(style_config, "underline")), base.underline),
    strikethrough |->
      or_default(as_bool(get(style_config, "strikethrough")), base.strikethrough) ]

\* parse_style that fills a fresh BasicTextStyle::default() instead of a copy
\* of the element's default
parse_style_FromBlank(value, default) ==
  IF value = None THEN default ELSE style_of(value[1], DefaultBasicTextStyle)

\* parse_style
parse_style(value, default) ==
  IF value = None THEN default ELSE style_of(value[1], default)

\* the result of fs::read_to_string and toml::from_str: no file, a file that
\* is no TOML, or the decoded root table
NoFile == [read |-> "missing"]
BadToml == [read |-> "invalid"]
Toml(root) == [read |-> "ok", root |-> TTable(root)]

\* the margin section of load_config: a missing or mistyped side is 8.0
parse_margins(config) ==
  IF get(config, "margin") = None THEN DefaultStyleMatch.margins
  ELSE [ side \in {"top", "right", "bottom", "left"} |->
           or_default(as_float(and_then_get(get(config, "margin"), side)), 80) ]

\* load_config
load_config(file) ==
  IF file.read # "ok" THEN DefaultStyleMatch
  ELSE
    [ margins |-> parse_margins(file.root),
      heading_1 |-> parse_style(and_then_get(get(file.root, "heading"), "1"),
                                DefaultStyleMatch.heading_1),
      heading_2 |-> parse_style(and_then_get(get(file.root, "heading"), "2"),
                                DefaultStyleMatch.heading_2),
      heading_3 |-> parse_style(and_then_get(get(file.root, "heading"), "3"),
                                DefaultStyleMatch.heading_3),
      emphasis |-> parse_style(get(file.root, "emphasis"), DefaultStyleMatch.emphasis),
      strong_emphasis |->
        parse_style(get(file.root, "strong_emphasis"), DefaultStyleMatch.strong_emphasis),
      code |-> parse_style(get(file.root, "code"), DefaultStyleMatch.code),
      block_quote |-> parse_style(get(file.root, "block_quote"), DefaultStyleMatch.block_quote),
      list_item |-> parse_style(get(file.root, "list_item"), DefaultStyleMatch.list_item),
      link |-> parse_style(get(file.root, "link"), DefaultStyleMatch.link),
      image |-> parse_style(get(file.root, "image"), DefaultStyleMatch.image),
      text |-> parse_style(get(file.root, "text"), DefaultStyleMatch.text),
      horizontal_rule |->
        parse_style(get(file.root, "horizontal_rule"), DefaultStyleMatch.horizontal_rule) ]

(***************************************************************************)
(* The style sources explored.                                             *)
(***************************************************************************)
Rgb(r, g, b) == TTable([c \in {"r", "g", "b"} |-> CASE c = "r" -> r [] c = "g" -> g [] OTHER -> b])

\* <<key, value>>: every key of a style section with well-typed, mistyped,
\* out-of-range and unrecognized values
StyleOverrides ==
  { <<"size", TInteger(20)>>, <<"size", TInteger(300)>>, <<"size", TInteger(-1)>>,
    <<"size", TString("invalid")>>, <<"size", TFloat(160)>>,
    <<"beforespacing", TFloat(15)>>, <<"beforespacing", TInteger(1)>>,
    <<"beforespacing", TBoolean(TRUE)>>,
    <<"afterspacing", TFloat(20)>>, <<"afterspacing", TString("2.0")>>,
    <<"textcolor", Rgb(TInteger(255), TInteger(128), TInteger(64))>>,
    <<"textcolor", Rgb(TInteger(256), TInteger(0), TInteger(-1))>>,
    <<"textcolor", Rgb(TInteger(255), TString("128"), TInteger(64))>>,
    <<"textcolor", TTable([c \in {"r", "g"} |-> TInteger(255)])>>,
    <<"textcolor", TString("red")>>,
    <<"backgroundcolor", Rgb(TInteger(255), TInteger(255), TInteger(255))>>,
    <<"backgroundcolor", TInteger(255)>>,
    <<"alignment", TString("left")>>, <<"alignment", TString("center")>>,
    <<"alignment", TString("right")>>, <<"alignment", TString("justify")>>,
    <<"alignment", TString("")>>, <<"alignment", TString("centre")>>,
    <<"alignment", TString("Center")>>, <<"alignment", TInteger(42)>>,
    <<"fontfamily", TString("roboto")>>, <<"fontfamily", TString("helvetica")>>,
    <<"fontfamily", TInteger(1)>>,
    <<"bold", TBoolean(TRUE)>>, <<"bold", TBoolean(FALSE)>>,
    <<"bold", TString("not_a_boolean")>>,
    <<"italic", TBoolean(TRUE)>>, <<"italic", TBoolean(FALSE)>>, <<"italic", TInteger(1)>>,
    <<"underline", TBoolean(TRUE)>>, <<"underline", TBoolean(FALSE)>>,
    <<"strikethrough", TBoolean(TRUE)>>, <<"strikethrough", TBoolean(FALSE)>>,
    <<"colour", TInteger(1)>> }

\* a style section: no key, one key, or two different keys
StyleTables ==
  {<<>>} \cup {(o[1] :> o[2]) : o \in StyleOverrides}
    \cup {(p[1][1] :> p[1][2]) @@ (p[2][1] :> p[2][2]) :
            p \in {q \in StyleOverrides \X StyleOverrides : q[1][1] # q[2][1]}}

\* the element names of a style source, as paths from the root
Elements ==
  { <<"heading", "1">>, <<"heading", "2">>, <<"heading", "3">>, <<"emphasis">>,
    <<"strong_emphasis">>, <<"code">>, <<"block_quote">>, <<"list_item">>, <<"link">>,
    <<"image">>, <<"text">>, <<"horizontal_rule">> }

\* the field of StyleMatch that load_config fills from an element's section
FieldOf(element) ==
  IF Len(element) = 2
  THEN (CASE element[2] = "1" -> "heading_1" [] element[2] = "2" -> "heading_2"
          [] OTHER -> "heading_3")
  ELSE element[1]

\* a root table with the one section of the element
Section(element, value) ==
  IF Len(element) = 2
  THEN (element[1] :> TTable(element[2] :> value))
  ELSE (element[1] :> value)

MarginTables ==
  { <<>>, ("top" :> TFloat(720)), ("top" :> TInteger(72)),
    ("left" :> TFloat(100)) @@ ("right" :> TFloat(120)) @@ ("bottom" :> TString("x")) }

\* the style source of the documentation of lib.rs
SampleConfig ==
  Toml(Section(<<"heading", "1">>,
               TTable(("size" :> TInteger(24)) @@ ("bold" :> TBoolean(TRUE))
                        @@ ("textcolor" :> Rgb(TInteger(0), TInteger(0), TInteger(255)))))
         @@ ("text" :> TTable(("size" :> TInteger(12)) @@ ("alignment" :> TString("left"))))
         @@ ("margin" :> TTable("top" :> TFloat(720))))

\* <<integer, the integer as u8>> outside 0..255, and the sources that give one
\* as the size or as a colour component of an element
RangeValues == { <<300, 44>>, <<256, 0>>, <<-1, 255>>, <<511, 255>>, <<-256, 0>> }
ColourKeys == { <<"textcolor", "text_color">>, <<"backgroundcolor", "background_color">> }
Components == {1, 2, 3}
Triple(c, n) == [i \in 1..3 |-> IF i = c THEN n ELSE 7]
SizeSource(e, n) == Toml(Section(e, TTable("size" :> TInteger(n))))
ColourSource(e, key, c, n) ==
  Toml(Section(e, TTable(key :> Rgb(TInteger(Triple(c, n)[1]), TInteger(Triple(c, n)[2]),
                                    TInteger(Triple(c, n)[3])))))
RangeSources ==
  {SizeSource(e, n[1]) : e \in Elements, n \in RangeValues}
    \cup {ColourSource(e, k[1], c, n[1]) :
            e \in Elements, k \in ColourKeys, c \in Components, n \in RangeValues}

ConfigFiles ==
  {NoFile, BadToml, SampleConfig}
    \cup {Toml(Section(e, TTable(t))) : e \in Elements, t \in StyleTables}
    \cup {Toml(Section(e, TInteger(1))) : e \in Elements}
    \cup {Toml("margin" :> TTable(m)) : m \in MarginTables}
    \cup {Toml("margin" :> TFloat(80)), Toml("heading" :> TString("1"))}
    \cup RangeSources

\* the style source of a conversion: the documented one (the built-in table is
\* what a caller of create_document passes)
PipelineConfigs == {SampleConfig}

\* token vectors with nested and ordered list items, and with a fenced block of
\* one line that has a language tag
NestedItem == ListItem(<<Text(<<"A">>), ListItem(<<Text(<<"N">>)>>, FALSE, <<>>)>>, FALSE, <<>>)
OrderedItem(n) == ListItem(<<Text(<<"a">>)>>, TRUE, <<n>>)
OneLineCode == Code(<<"r">>, <<"c">>)
ListVectors ==
  { <<NestedItem>>, <<NestedItem, ListItem(<<Text(<<"B">>)>>, FALSE, <<>>)>>,
    <<OrderedItem(3)>>, <<OrderedItem(3), OrderedItem(4)>>,
    <<ListItem(<<Text(<<"A">>), OrderedItem(1)>>, FALSE, <<>>)>>,
    <<Text(<<"a">>), Newline, NestedItem>> }
CodeVectors ==
  {pre \o <<OneLineCode>> \o post :
     pre \in {<<>>, <<Text(<<"a">>)>>, <<Newline>>},
     post \in {<<>>, <<Newline>>, <<Newline, Newline>>, <<Heading(<<Text(<<"h">>)>>, 2)>>,
               <<Newline, Code(<<"r">>, <<"c", "\n", "d">>)>>}}
\* token vectors with a StrongEmphasis, which only a caller of Pdf::new can build
StrongItem == StrongEmphasis(<<Text(<<"s">>), Link(<<"l">>, <<"u">>)>>)
StrongVectors ==
  { <<StrongItem>>, <<Text(<<"a">>), StrongItem, Text(<<"b">>)>>,
    <<StrongItem, Newline, Heading(<<StrongItem>>, 1)>>,
    <<ListItem(<<StrongItem>>, FALSE, <<>>), StrongItem>>,
    <<Emphasis(1, <<StrongItem, Text(<<" ">>)>>), HorizontalRule, StrongItem>> }
BuildVectors == TokenVectors \cup ListVectors \cup CodeVectors \cup StrongVectors

\* the tables handed to create_document: the built-in one and a resolved one
BuildStyles == {DefaultStyleMatch, load_config(SampleConfig)}

(***************************************************************************)
(* State.                                                                  *)
(***************************************************************************)
VARIABLES
  entry,                   \* the entry point called: "markdown" (Lexer::new on a
                           \* string, as parse of lib.rs does) or "tokens" (Pdf::new)
  input,                   \* Lexer.input
  position,                \* Lexer.position
  tokens,                  \* the Vec built by Lexer::parse, then Pdf.input
  error,                   \* the LexerError of a failed parse, "" if none
  pc,                      \* the step of the call: "lex", "lex_err", "lex_panic",
                           \* "config", "configured", "create", "panicked", "group",
                           \* "done", "built", "returned"
  idx,                     \* group_tokens: idx
  blocks,                  \* group_tokens: blocks
  current_inline_content,  \* group_tokens: current_inline_content
  newline_count,           \* group_tokens: newline_count
  config,                  \* load_config: what reading the style source gave
  style,                   \* the StyleMatch of load_config, None before it
  document,                \* the genpdfi::Document of create_document, None before it
  written,                 \* whether render_to_file has written to the target path
  result                   \* how the call ended: "" while it runs, "Ok", "ParseError",
                           \* "PdfError", or "panic"

vars ==
  <<entry, input, position, tokens, error, pc, idx, blocks, current_inline_content,
    newline_count, config, style, document, written, result>>

group_vars == <<idx, blocks, current_inline_content, newline_count>>
lexer_vars == <<entry, input, position, tokens, error>>
build_vars == <<config, style, document, written, result>>

\* parse(markdown, path) of lib.rs at Lexer::new(markdown); or
\* Pdf::new(tokens).create_document(StyleMatch::default()) on a token vector built
\* by the caller; or config::load_config() called on its own
Init ==
  /\ position = 0
  /\ error = ""
  /\ idx = 0
  /\ blocks = <<>>
  /\ current_inline_content = <<>>
  /\ newline_count = 0
  /\ config = None
  /\ document = None
  /\ written = FALSE
  /\ result = ""
  /\ \/ entry = "markdown" /\ pc = "lex" /\ input \in Inputs /\ tokens = <<>>
          /\ style = None
     \/ entry = "tokens" /\ pc = "create" /\ input = <<>> /\ tokens \in TokenVectors
          /\ style = Some(DefaultStyleMatch)
     \/ entry = "config" /\ pc = "config" /\ input = <<>> /\ tokens = <<>>
          /\ style = None

(***************************************************************************)
(* Lexer::parse: one iteration of its loop, and its return.                *)
(***************************************************************************)
\* Lexer::parse whose Err is dropped by its caller, which goes on with no tokens
ParseResult_Continue(r) ==
  /\ position' = r.pos
  /\ IF r.st = "ok"
     THEN tokens' = tokens \o r.tok /\ pc' = pc /\ error' = error /\ result' = result
     ELSE /\ tokens' = <<>>
          /\ error' = r.err
          /\ pc' = IF r.st = "err" THEN "config" ELSE "lex_panic"
          /\ result' = IF r.st = "err" THEN result ELSE "panic"

\* a lexer that rewinds its cursor to the start of the input when it fails
ParseResult_Rewind(r) ==
  /\ position' = IF r.st = "ok" THEN r.pos ELSE 0
  /\ IF r.st = "ok"
     THEN tokens' = tokens \o r.tok /\ pc' = pc /\ error' = error /\ result' = result
     ELSE /\ tokens' = <<>>
          /\ error' = r.err
          /\ pc' = IF r.st = "err" THEN "lex_err" ELSE "lex_panic"
          /\ result' = IF r.st = "err" THEN "ParseError" ELSE "panic"

\* tokens.push(token); or the return of Err, which the ? of parse (lib.rs) hands
\* on as MdpError::ParseError; or the unwinding
ParseResult(r) ==
  /\ position' = r.pos
  /\ IF r.st = "ok"
     THEN tokens' = tokens \o r.tok /\ pc' = pc /\ error' = error /\ result' = result
     ELSE /\ tokens' = <<>>
          /\ error' = r.err
          /\ pc' = IF r.st = "err" THEN "lex_err" ELSE "lex_panic"
          /\ result' = IF r.st = "err" THEN "ParseError" ELSE "panic"

ParseStep ==
  /\ pc = "lex"
  /\ position < Len(input)
  /\ ParseResult(next_token(input, position))
  /\ UNCHANGED <<entry, input, group_vars, config, style, document, written>>

\* Ok(tokens), handed to Pdf::new
ParseReturn ==
  /\ pc = "lex"
  /\ position >= Len(input)
  /\ pc' = "config"
  /\ UNCHANGED <<lexer_vars, build_vars, group_vars>>

(***************************************************************************)
(* Pdf::group_tokens: one action per match arm of its loop.                *)
(***************************************************************************)
IsInline(t) ==
  t.type \in {"Text", "Emphasis", "StrongEmphasis", "Code", "Link"}

contains_newline(s) == \E i \in 1..Len(s) : s[i] = "\n"

\* a guard that takes the language tag, not the newline, for the mark of a block
IsCodeBlock_Tagged(t) == t.type = "Code" /\ t.language # <<>>

IsCodeBlock(t) == t.type = "Code" /\ contains_newline(t.text)

\* Flushed that drops the pending tokens instead of emitting them
Flushed_Dropped(bs, pending) == bs

\* "if !current_inline_content.is_empty() { blocks.push(Paragraph(..)); clear }"
Flushed(bs, pending) ==
  IF pending # <<>> THEN Append(bs, BlockParagraph(pending)) ELSE bs

AtToken == pc = "group" /\ idx < Len(tokens)
Tok == tokens[idx + 1]

\* a flushing arm: pending paragraph, then the block
EmitBlock(b) ==
  /\ blocks' = Append(Flushed(blocks, current_inline_content), b)
  /\ current_inline_content' = <<>>
  /\ idx' = idx + 1
  /\ newline_count' = 0
  /\ UNCHANGED <<lexer_vars, build_vars, pc>>

GroupHeading ==
  /\ AtToken /\ Tok.type = "Heading"
  /\ EmitBlock(BlockHeading(Tok.content, Tok.level))

\* ListRunEnd that collects no subsequent item
ListRunEnd_One(ts, i) == i

\* index after the run of ListItem tokens that starts at i (0-based)
RECURSIVE ListRunEnd(_, _)
ListRunEnd(ts, i) ==
  IF i < Len(ts) /\ ts[i + 1].type = "ListItem" THEN ListRunEnd(ts, i + 1) ELSE i

GroupListItem ==
  /\ AtToken /\ Tok.type = "ListItem"
  /\ LET end == ListRunEnd(tokens, idx + 1)
         items == [k \in 1..(end - idx) |-> tokens[idx + k].content]
     IN /\ blocks' = Append(Flushed(blocks, current_inline_content), BlockList(items))
        /\ idx' = end
  /\ current_inline_content' = <<>>
  /\ newline_count' = 0
  /\ UNCHANGED <<lexer_vars, build_vars, pc>>

GroupBlockQuote ==
  /\ AtToken /\ Tok.type = "BlockQuote"
  /\ EmitBlock(BlockBlockQuote(<<Text(Tok.text)>>))

GroupCodeBlock ==
  /\ AtToken /\ IsCodeBlock(Tok)
  /\ EmitBlock(BlockCodeBlock(Tok.language, Tok.text))

GroupHorizontalRule ==
  /\ AtToken /\ Tok.type = "HorizontalRule"
  /\ EmitBlock(BlockHorizontalRule)

\* GroupNewline that does not keep a single Newline as a soft break
GroupNewline_NoSoftBreak ==
  /\ AtToken /\ Tok.type = "Newline"
  /\ idx' = idx + 1
  /\ IF newline_count + 1 >= 2
     THEN /\ blocks' = Append(Flushed(blocks, current_inline_content), BlockEmptyLine)
          /\ current_inline_content' = <<>>
          /\ newline_count' = 0
     ELSE /\ current_inline_content' = current_inline_content
          /\ newline_count' = newline_count + 1
          /\ blocks' = blocks
  /\ UNCHANGED <<lexer_vars, build_vars, pc>>

\* GroupNewline that ends the paragraph at the first Newline
GroupNewline_Eager ==
  /\ AtToken /\ Tok.type = "Newline"
  /\ idx' = idx + 1
  /\ blocks' = Append(Flushed(blocks, current_inline_content), BlockEmptyLine)
  /\ current_inline_content' = <<>>
  /\ newline_count' = 0
  /\ UNCHANGED <<lexer_vars, build_vars, pc>>

GroupNewline ==
  /\ AtToken /\ Tok.type = "Newline"
  /\ idx' = idx + 1
  /\ IF newline_count + 1 >= 2
     THEN /\ blocks' = Append(Flushed(blocks, current_inline_content), BlockEmptyLine)
          /\ current_inline_content' = <<>>
          /\ newline_count' = 0
     ELSE /\ current_inline_content' = Append(current_inline_content, Newline)
          /\ newline_count' = newline_count + 1
          /\ blocks' = blocks
  /\ UNCHANGED <<lexer_vars, build_vars, pc>>

GroupInline ==
  /\ AtToken /\ IsInline(Tok) /\ ~IsCodeBlock(Tok)
  /\ current_inline_content' = Append(current_inline_content, Tok)
  /\ idx' = idx + 1
  /\ newline_count' = 0
  /\ UNCHANGED <<lexer_vars, build_vars, pc, blocks>>

\* the wildcard arm: Image, HtmlComment, Unknown
GroupOther ==
  /\ AtToken
  /\ Tok.type \notin {"Heading", "ListItem", "BlockQuote", "HorizontalRule", "Newline"}
  /\ ~IsInline(Tok)
  /\ idx' = idx + 1
  /\ newline_count' = 0
  /\ UNCHANGED <<lexer_vars, build_vars, pc, blocks, current_inline_content>>

\* a return that forgets the pending inline tokens
GroupReturn_NoFlush ==
  /\ pc = "group"
  /\ idx >= Len(tokens)
  /\ pc' = "done"
  /\ UNCHANGED <<lexer_vars, build_vars, idx, blocks, current_inline_content, newline_count>>

\* after the loop: the trailing paragraph, and the return
GroupReturn ==
  /\ pc = "group"
  /\ idx >= Len(tokens)
  /\ blocks' = Flushed(blocks, current_inline_content)
  /\ pc' = "done"
  /\ UNCHANGED <<lexer_vars, build_vars, idx, current_inline_content, newline_count>>

(***************************************************************************)
(* parse of lib.rs after the lexer: load_config, Pdf::create_document and  *)
(* Pdf::render.                                                            *)
(***************************************************************************)
\* config::load_config() on what the home directory holds
LoadConfig ==
  /\ pc = "config"
  /\ \E file \in (IF entry = "config" THEN ConfigFiles ELSE PipelineConfigs) :
       /\ config' = Some(file)
       /\ style' = Some(load_config(file))
  /\ pc' = IF entry = "config" THEN "configured" ELSE "create"
  /\ UNCHANGED <<lexer_vars, group_vars, document, written, result>>

\* MdPdfFont::dir and MdPdfFont::file of the one font, Roboto
FontDir == "roboto"
FontVariants == {"Regular", "Bold", "Italic", "BoldItalic"}

\* format!("fonts/{}/{}-{}.ttf", font.dir(), font.file(), variant)
FontPath(file, variant) == <<"fonts", FontDir, file, variant>>

\* the embedded assets that hold valid font data
AllFonts == {FontPath("Roboto", v) : v \in FontVariants}
AssetSets == {AllFonts, AllFonts \ {FontPath("Roboto", "Bold")}, {}}

\* load_font_variant: Ok iff the asset is embedded and FontData::new takes it
load_font_variant(assets, file, variant) == FontPath(file, variant) \in assets

\* load_font_family: Ok (TRUE) iff the four variants load
load_font_family(assets, family) ==
  \A v \in FontVariants : load_font_variant(assets, find_match_file(family), v)

\* init_document: the page margins and the base font size
init_document(style_match) ==
  [margins |-> style_match.margins, font_size |-> style_match.text.size, elements |-> <<>>]

\* the head of create_document: the two expect() on the font families, then
\* init_document
CreateDocument ==
  /\ pc = "create"
  /\ \E assets \in AssetSets :
       IF load_font_family(assets, style[1].text.font_family)
            /\ load_font_family(assets, style[1].code.font_family)
       THEN document' = Some(init_document(style[1])) /\ pc' = "group" /\ result' = result
       ELSE document' = document /\ pc' = "panicked" /\ result' = "panic"
  /\ UNCHANGED <<lexer_vars, group_vars, config, style, written>>

\* genpdfi elements: a Break of some lines (in tenths), a Paragraph of the
\* pieces pushed into it, a list of paragraphs
Break(lines) == [kind |-> "Break", lines |-> lines]
Paragraph(pieces) == [kind |-> "Paragraph", pieces |-> pieces]
UnorderedList(items) == [kind |-> "UnorderedList", items |-> items]

\* Paragraph::push_styled and Paragraph::push_link
PushStyled(text, style_) == [push |-> "styled", text |-> text, style |-> style_]
PushLink(text, url, style_) == [push |-> "link", text |-> text, url |-> url, style |-> style_]

\* Style::new().with_font_size(..) and the bold(), italic(), with_color(..) that
\* each renderer applies
BaseStyle(descriptor, bold, italic) ==
  [size |-> descriptor.size, bold |-> bold, italic |-> italic,
   color |-> descriptor.text_color]

\* content.split('\n')
RECURSIVE SplitLines(_, _)
SplitLines(s, line) ==
  IF s = <<>> THEN <<line>>
  ELSE IF Head(s) = "\n" THEN <<line>> \o SplitLines(Tail(s), <<>>)
  ELSE SplitLines(Tail(s), Append(line, Head(s)))

\* "if let Some(color) = descriptor.text_color { style.with_color(..) }"
with_color(style_, text_color) ==
  IF text_color # None THEN [style_ EXCEPT !.color = text_color] ELSE style_

\* render_inline_tokens: the pieces pushed for a vector of tokens; Newline and
\* every token of the wildcard arm (ListItem, Image, ...) push nothing
RECURSIVE render_inline_tokens(_, _, _)
RECURSIVE render_inline_token(_, _, _)
render_inline_token(token, style_, sm) ==
  CASE token.type = "Text" -> << PushStyled(token.text, style_) >>
    [] token.type = "Emphasis" ->
         render_inline_tokens(token.content,
                              CASE token.level = 1 -> [style_ EXCEPT !.italic = TRUE]
                                [] token.level = 2 -> [style_ EXCEPT !.bold = TRUE]
                                [] OTHER -> [style_ EXCEPT !.bold = TRUE, !.italic = TRUE],
                              sm)
    [] token.type = "StrongEmphasis" ->
         render_inline_tokens(token.content, [style_ EXCEPT !.bold = TRUE], sm)
    [] token.type = "Link" ->
         << PushLink(token.text \o <<" ">>, token.url, with_color(style_, sm.link.text_color)) >>
    [] token.type = "Code" ->
         << PushStyled(token.text, with_color(style_, sm.code.text_color)) >>
    [] OTHER -> <<>>

render_inline_tokens(tokens_, style_, sm) ==
  IF tokens_ = <<>> THEN <<>>
  ELSE render_inline_token(Head(tokens_), style_, sm)
         \o render_inline_tokens(Tail(tokens_), style_, sm)

process_inline_tokens(tokens_, style_, sm) == Paragraph(render_inline_tokens(tokens_, style_, sm))

\* the descriptor render_heading selects
heading_style(level, sm) ==
  CASE level = 1 -> sm.heading_1
    [] level = 2 -> sm.heading_2
    [] level = 3 -> sm.heading_3
    [] OTHER -> sm.text

render_heading(content, level, sm) ==
  << process_inline_tokens(content,
                           BaseStyle(heading_style(level, sm), heading_style(level, sm).bold,
                                     heading_style(level, sm).italic),
                           sm),
     Break(heading_style(level, sm).after_spacing) >>

render_paragraph(content, sm) ==
  << process_inline_tokens(content, BaseStyle(sm.text, FALSE, FALSE), sm),
     Break(sm.text.after_spacing) >>

render_list(items, sm) ==
  << UnorderedList([i \in 1..Len(items) |->
                      process_inline_tokens(items[i], BaseStyle(sm.list_item, FALSE, FALSE), sm)]),
     Break(sm.list_item.after_spacing) >>

render_blockquote(content, sm) ==
  << process_inline_tokens(content, BaseStyle(sm.block_quote, FALSE, sm.block_quote.italic), sm),
     Break(sm.block_quote.after_spacing) >>

render_codeblock(content, sm) ==
  [i \in 1..Len(SplitLines(content, <<>>)) |->
     Paragraph(<< PushStyled(SplitLines(content, <<>>)[i], BaseStyle(sm.code, FALSE, FALSE)) >>)]
    \o << Break(sm.code.after_spacing) >>

\* one arm of the match of render_blocks: the elements pushed for a block
render_block(block, sm) ==
  CASE block.type = "Heading" -> render_heading(block.content, block.level, sm)
    [] block.type = "Paragraph" -> render_paragraph(block.content, sm)
    [] block.type = "List" -> render_list(block.items, sm)
    [] block.type = "BlockQuote" -> render_blockquote(block.content, sm)
    [] block.type = "CodeBlock" -> render_codeblock(block.text, sm)
    [] block.type = "HorizontalRule" -> << Break(sm.horizontal_rule.after_spacing) >>
    [] OTHER -> << Break(10) >>

RECURSIVE render_blocks(_, _)
render_blocks(bs, sm) ==
  IF bs = <<>> THEN <<>> ELSE render_block(Head(bs), sm) \o render_blocks(Tail(bs), sm)

\* the tail of create_document: render_blocks on the grouped blocks, and the
\* return of the document
RenderBlocks ==
  /\ pc = "done"
  /\ document' = Some([document[1] EXCEPT !.elements = render_blocks(blocks, style[1])])
  /\ pc' = "built"
  /\ UNCHANGED <<lexer_vars, group_vars, config, style, written, result>>

\* Pdf::render: render_to_file, whose failure parse returns as MdpError::PdfError;
\* a failed write may or may not have touched the target
Render ==
  /\ pc = "built"
  /\ \E ok \in BOOLEAN, touched \in BOOLEAN :
       IF ok THEN written' = TRUE /\ result' = "Ok"
       ELSE written' = touched /\ result' = "PdfError"
  /\ pc' = "returned"
  /\ UNCHANGED <<lexer_vars, group_vars, config, style, document>>

Next ==
  \/ ParseStep
  \/ ParseReturn
  \/ LoadConfig
  \/ CreateDocument
  \/ GroupHeading
  \/ GroupListItem
  \/ GroupBlockQuote
  \/ GroupCodeBlock
  \/ GroupHorizontalRule
  \/ GroupNewline
  \/ GroupInline
  \/ GroupOther
  \/ GroupReturn
  \/ RenderBlocks
  \/ Render

Spec == Init /\ [][Next]_vars

(***************************************************************************)
(* config::load_config() called on its own, and Lexer::new(..).parse()     *)
(* called on its own.                                                      *)
(***************************************************************************)
InitConfig == Init /\ entry = "config"
NextConfig == LoadConfig
SpecConfig == InitConfig /\ [][NextConfig]_vars

InitLexer == Init /\ entry = "markdown"
NextLexer == ParseStep \/ ParseReturn
SpecLexer == InitLexer /\ [][NextLexer]_vars

(***************************************************************************)
(* Pdf::new(tokens).create_document(style_match) and Pdf::render called on *)
(* their own.                                                              *)
(***************************************************************************)
InitBuild ==
  /\ entry = "tokens" /\ pc = "create"
  /\ input = <<>> /\ position = 0 /\ error = ""
  /\ tokens \in BuildVectors
  /\ idx = 0 /\ blocks = <<>> /\ current_inline_content = <<>> /\ newline_count = 0
  /\ config = None
  /\ \E sm \in BuildStyles : style = Some(sm)
  /\ document = None /\ written = FALSE /\ result = ""

NextBuild ==
  \/ CreateDocument
  \/ GroupHeading
  \/ GroupListItem
  \/ GroupBlockQuote
  \/ GroupCodeBlock
  \/ GroupHorizontalRule
  \/ GroupNewline
  \/ GroupInline
  \/ GroupOther
  \/ GroupReturn
  \/ RenderBlocks
  \/ Render

SpecBuild == InitBuild /\ [][NextBuild]_vars

(***************************************************************************)
(* Vocabulary of the properties.                                           *)
(***************************************************************************)
Last(q) == q[Len(q)]

\* Lexer::parse has returned Ok
Lexed == entry = "markdown" /\ pc \notin {"lex", "lex_err", "lex_panic"}
\* Lexer::parse has returned, or unwound
ParseEnded == entry = "markdown" /\ pc # "lex"
\* Lexer::parse and then group_tokens have returned
Converted == entry = "markdown" /\ pc = "done"

\* the inputs of a table of <<input, expected result>> cases
InputsOf(cases) == {c[1] : c \in cases}

TitleDoc ==
  <<"#", " ", "T", "i", "t", "l", "e", "\n", "\n",
    "S", "o", "m", "e", " ", "*", "t", "e", "x", "t", "*", ".">>
TitleText == Text(<<"T", "i", "t", "l", "e">>)
SomeText == Text(<<"S", "o", "m", "e", " ">>)
WordText == Text(<<"t", "e", "x", "t">>)
DotText == Text(<<".">>)
Space == Text(<<" ">>)

(***************************************************************************)
(* C1.  End to end, "# Title\n\nSome *text*." yields exactly two blocks,   *)
(* Heading(1, [Text("Title")]) and Paragraph([Text("Some "),               *)
(* Emphasis(1, [Text("text")]), Text(".")]), with no EmptyLine and no      *)
(* other Paragraph.  This is the claim as stated; the code refutes it.     *)
(***************************************************************************)
C1_TwoBlocks ==
  (Converted /\ input = TitleDoc) =>
    blocks = << BlockHeading(<<TitleText>>, 1),
                BlockParagraph(<<SomeText, Emphasis(1, <<WordText>>), DotText>>) >>

(***************************************************************************)
(* C1 as amended.  The same input yields four blocks: the heading, a       *)
(* Paragraph holding the Newline that ends the heading line, an EmptyLine  *)
(* for the second Newline, and the Paragraph, whose Emphasis carries the   *)
(* synthetic trailing Text(" ").                                           *)
(***************************************************************************)
C1_FourBlocks ==
  (Converted /\ input = TitleDoc) =>
    blocks = << BlockHeading(<<TitleText>>, 1),
                BlockParagraph(<<Newline>>),
                BlockEmptyLine,
                BlockParagraph(<<SomeText, Emphasis(1, <<WordText, Space>>), DotText>>) >>

C1_Witness == Converted /\ input = TitleDoc /\ Len(blocks) = 4

(***************************************************************************)
(* C2.  "A\n\nB" yields [Paragraph([Text("A")]), EmptyLine,                *)
(* Paragraph([Text("B")])], the first Paragraph holding no Newline; stated *)
(* for every pair of plain texts A, B.  This is the claim as stated; the   *)
(* code refutes it.                                                        *)
(***************************************************************************)
BlankLineInputs == {BreakInput(t, 2, u) : t \in PlainTexts, u \in PlainTexts}

C2_CasesAsStated ==
  { << BreakInput(t, 2, u),
       << BlockParagraph(<<Text(t)>>), BlockEmptyLine, BlockParagraph(<<Text(u)>>) >> >> :
    t \in PlainTexts, u \in PlainTexts }

C2_NoNewlineInParagraph ==
  (Converted /\ input \in BlankLineInputs) => <<input, blocks>> \in C2_CasesAsStated

(***************************************************************************)
(* C2 as amended.  "A\n\nB" yields [Paragraph([Text("A"), Newline]),       *)
(* EmptyLine, Paragraph([Text("B")])]: the first Newline is already in the *)
(* pending accumulator when the second one flushes it.                     *)
(***************************************************************************)
C2_Cases ==
  { << BreakInput(t, 2, u),
       << BlockParagraph(<<Text(t), Newline>>), BlockEmptyLine,
          BlockParagraph(<<Text(u)>>) >> >> :
    t \in PlainTexts, u \in PlainTexts }

C2_NewlineInParagraph ==
  (Converted /\ input \in BlankLineInputs) => <<input, blocks>> \in C2_Cases

C2_Witness ==
  /\ Converted /\ input = <<"a", "\n", "\n", "b">>
  /\ blocks[2] = BlockEmptyLine

(***************************************************************************)
(* C3.  A single Newline between two inline tokens never ends a paragraph: *)
(* group_tokens keeps it in the pending accumulator, so once the token     *)
(* after it is consumed the accumulator ends with the three tokens, and    *)
(* "A\nB" yields the one block Paragraph([Text("A"), Newline, Text("B")]). *)
(***************************************************************************)
InlineToken(t) == IsInline(t) /\ ~IsCodeBlock(t)

C3_Cases ==
  { << BreakInput(t, 1, u), << BlockParagraph(<<Text(t), Newline, Text(u)>>) >> >> :
    t \in PlainTexts, u \in PlainTexts }

C3_SoftBreak ==
  /\ (pc = "group" /\ idx >= 3 /\ InlineToken(tokens[idx - 2])
        /\ tokens[idx - 1] = Newline /\ InlineToken(tokens[idx]))
       => /\ Len(current_inline_content) >= 3
          /\ SubSeq(current_inline_content, Len(current_inline_content) - 2,
                    Len(current_inline_content))
               = SubSeq(tokens, idx - 2, idx)
  /\ (Converted /\ input \in InputsOf(C3_Cases)) => <<input, blocks>> \in C3_Cases

C3_Witness ==
  /\ Converted /\ input = <<"a", "\n", "b">>
  /\ blocks = << BlockParagraph(<<Text(<<"a">>), Newline, Text(<<"b">>)>>) >>

(***************************************************************************)
(* C4.  For n in 1..6 and plain text T, Lexer::parse on n '#', one space   *)
(* and T returns Ok with exactly one token, Heading([Text(T)], n).         *)
(***************************************************************************)
HeadingLevels == 1..6

C4_Cases ==
  { << Rep("#", n) \o <<" ">> \o t, << Heading(<<Text(t)>>, n) >> >> :
    n \in HeadingLevels, t \in InlineTexts }
C4_Inputs == InputsOf(C4_Cases)

C4_Heading ==
  (ParseEnded /\ input \in C4_Inputs) => Lexed /\ <<input, tokens>> \in C4_Cases

C4_Witness ==
  /\ Lexed /\ input = <<"#", "#", "#", "#", "#", "#", " ", "a", "b">>
  /\ tokens = << Heading(<<Text(<<"a", "b">>)>>, 6) >>

(***************************************************************************)
(* C5.  For d in {*, _}, L in {1,2,3} and plain text T, the closed run     *)
(* d^L T d^L parses to the one token Emphasis(min(L,3), [Text(T)]), with   *)
(* no other token in the content.  This is the claim as stated; the code   *)
(* refutes it.                                                             *)
(***************************************************************************)
EmphasisLevels == 1..3

C5_CasesAsStated ==
  { << EmphasisInput(<<>>, d, l, t, l, <<>>), << Emphasis(Min(l, 3), <<Text(t)>>) >> >> :
    d \in {"*", "_"}, l \in EmphasisLevels, t \in InlineTexts }
C5_Inputs == InputsOf(C5_CasesAsStated)

C5_NoSyntheticToken ==
  (ParseEnded /\ input \in C5_Inputs) => Lexed /\ <<input, tokens>> \in C5_CasesAsStated

(***************************************************************************)
(* C5 as amended.  The closed run d^L T d^L parses to the one token        *)
(* Emphasis(min(L,3), [Text(T), Text(" ")]): the content is the text       *)
(* followed by one synthetic Text(" ").                                    *)
(***************************************************************************)
C5_Cases ==
  { << EmphasisInput(<<>>, d, l, t, l, <<>>),
       << Emphasis(Min(l, 3), <<Text(t), Space>>) >> >> :
    d \in {"*", "_"}, l \in EmphasisLevels, t \in InlineTexts }

C5_SyntheticToken ==
  (ParseEnded /\ input \in C5_Inputs) => Lexed /\ <<input, tokens>> \in C5_Cases

C5_Witness ==
  /\ Lexed /\ input = <<"_", "_", "_", "a", "b", "_", "_", "_">>
  /\ tokens = << Emphasis(3, <<Text(<<"a", "b">>), Space>>) >>

(***************************************************************************)
(* C6.  Every Emphasis token Lexer::parse emits has a level in 1..3 and a  *)
(* content ending with the synthetic Text(" "); for a closed run           *)
(* d^L T d^L the level is min(L,3) and the content [Text(T), Text(" ")],   *)
(* and whitespace after the closing delimiters produces no token.          *)
(***************************************************************************)
HasChildren(t) == t.type \in {"Heading", "Emphasis", "ListItem"}

\* every token of the trees ts, at any depth
RECURSIVE TokensOf(_)
TokensOf(ts) ==
  IF ts = <<>> THEN {}
  ELSE {ts[1]} \cup (IF HasChildren(ts[1]) THEN TokensOf(ts[1].content) ELSE {})
         \cup TokensOf(Tail(ts))

WhiteTails == {<<>>, <<" ">>, <<" ", " ">>}

\* <<input, level, content>> of the closed runs, whitespace after them
C6_Cases ==
  { << EmphasisInput(<<>>, d, l, t, l, w), Min(l, 3), <<Text(t), Space>> >> :
    d \in {"*", "_"}, l \in 1..MaxRun, t \in InlineTexts, w \in WhiteTails }
C6_Inputs == InputsOf(C6_Cases)

C6_TrailingSpace ==
  /\ Lexed =>
       \A e \in TokensOf(tokens) :
         e.type = "Emphasis" =>
           e.level \in 1..3 /\ e.content # <<>> /\ Last(e.content) = Space
  /\ (ParseEnded /\ input \in C6_Inputs) =>
       /\ Lexed
       /\ Len(tokens) = 1
       /\ tokens[1].type = "Emphasis"
       /\ <<input, tokens[1].level, tokens[1].content>> \in C6_Cases

C6_Witness ==
  /\ Lexed /\ input = <<"*", "*", "*", "*", "a", "*", "*", "*", "*", " ">>
  /\ tokens = << Emphasis(3, <<Text(<<"a">>), Space>>) >>

(***************************************************************************)
(* C7.  An emphasis run of L opening delimiters whose nested content is    *)
(* followed by fewer than L closing delimiters (none at the end of the     *)
(* input included) makes Lexer::parse return an error and no token at all, *)
(* whatever was tokenized before the run and whatever follows the short    *)
(* closing run.  The code does this when the nested content stays on one   *)
(* line (C7_Unmatched); it does not when the nested content holds a        *)
(* tab-indented line, where the parse panics instead of returning the      *)
(* error (C7_UnmatchedFails).                                              *)
(***************************************************************************)
\* <<L, K>>: an opening run of L delimiters and a closing run of K < L
ShortRuns == {r \in (1..MaxRun) \X (0..MaxRun) : r[2] < r[1]}

UnmatchedInputs ==
  { EmphasisInput(pre, d, r[1], t, r[2], w) :
    pre \in {<<>>, <<"a", " ">>}, d \in {"*", "_"}, r \in ShortRuns,
    t \in InlineTexts, w \in EmphasisTails }

C7_Unmatched ==
  (ParseEnded /\ input \in UnmatchedInputs) =>
    pc = "lex_err" /\ error = "UnknownToken" /\ tokens = <<>>

C7_Witness ==
  /\ pc = "lex_err" /\ input = <<"a", " ", "*", "*", "b", "*", "a">>
  /\ tokens = <<>>

\* C7 as stated, for every unclosed or short-closed run of the input families,
\* nested content over several lines included: Lexer::parse returns
\* Err(UnknownToken) and no token.  The code refutes it: on an open run followed
\* by a line break and a tab the parse unwinds with a panic, and returns nothing
UnclosedInputs == UnmatchedInputs \cup BrokenRunInputs

C7_UnmatchedFails ==
  (ParseEnded /\ input \in UnclosedInputs) =>
    pc = "lex_err" /\ error = "UnknownToken" /\ tokens = <<>>

(***************************************************************************)
(* C8.  For every input made only of text and single newlines, parse       *)
(* returns Ok with only Text and Newline tokens whose concatenation is the *)
(* input, spaces at the start of a line and '!' included.  This is the     *)
(* claim as stated; the code refutes it.                                   *)
(***************************************************************************)
SingleNewlines(s) == \A i \in 1..(Len(s) - 1) : ~(s[i] = "\n" /\ s[i + 1] = "\n")

\* the Text contents and one "\n" per Newline, in order
RECURSIVE Concat(_)
Concat(ts) ==
  IF ts = <<>> THEN <<>>
  ELSE (IF ts[1].type = "Text" THEN ts[1].text ELSE <<"\n">>) \o Concat(Tail(ts))

OnlyTextAndNewline(ts) == \A i \in 1..Len(ts) : ts[i].type \in {"Text", "Newline"}

RoundTrips == Lexed /\ OnlyTextAndNewline(tokens) /\ Concat(tokens) = input

C8_RoundTrip ==
  (ParseEnded /\ input \in TextInputs /\ SingleNewlines(input)) => RoundTrips

(***************************************************************************)
(* C8 as amended.  The round trip holds for every input made only of text  *)
(* and single newlines in which no line starts with a space and no '!'     *)
(* occurs: leading spaces of a line are skipped, and a '!' that opens no   *)
(* image is an error.                                                      *)
(***************************************************************************)
StartsLine(s, i) == i = 1 \/ s[i - 1] = "\n"
NoLeadingSpace(s) == \A i \in 1..Len(s) : ~(s[i] = " " /\ StartsLine(s, i))
NoBang(s) == \A i \in 1..Len(s) : s[i] # "!"

C8_RoundTripPlain ==
  (ParseEnded /\ input \in TextInputs /\ SingleNewlines(input)
     /\ NoLeadingSpace(input) /\ NoBang(input)) => RoundTrips

C8_Witness ==
  /\ Lexed /\ input = <<"a", " ", "\n", ".">>
  /\ tokens = << Text(<<"a", " ">>), Newline, Text(<<".">>) >>

(***************************************************************************)
(* C9.  A fenced block of language lang and code code parses to the token  *)
(* Code(trim(lang), trim(code)), and to that same token between blank      *)
(* lines, each blank line adding one Newline token and nothing else.       *)
(***************************************************************************)
C9_Cases ==
  { << Rep("\n", i) \o Fenced(k, lang, code) \o Rep("\n", j),
       Rep(Newline, i) \o <<Code(Trim(lang), Trim(code))>> \o Rep(Newline, j) >> :
    i \in 0..MaxBlank, j \in 0..MaxBlank, k \in 2..MaxRun,
    lang \in LangTexts, code \in CodeTexts }

C9_Fenced ==
  (ParseEnded /\ input \in FencedInputs) => Lexed /\ <<input, tokens>> \in C9_Cases

C9_Witness ==
  /\ Lexed
  /\ input = <<"\n", Backtick, Backtick, Backtick, "r", "\n", "c", " ", "\n",
               Backtick, Backtick, Backtick, "\n", "\n">>
  /\ tokens = << Newline, Code(<<"r">>, <<"c">>), Newline, Newline >>

(***************************************************************************)
(* C10.  group_tokens turns every maximal run of consecutive ListItem      *)
(* tokens into exactly one List block holding the items' contents in       *)
(* order, and the output never contains two adjacent List blocks.  This is *)
(* the claim as stated; the code refutes its last part.                    *)
(***************************************************************************)
\* the contents of the maximal runs of ListItem tokens of ts, run by run;
\* open: the last run built so far is still running
RECURSIVE RunsOf(_, _, _)
RunsOf(ts, runs, open) ==
  IF ts = <<>> THEN runs
  ELSE IF ts[1].type # "ListItem" THEN RunsOf(Tail(ts), runs, FALSE)
  ELSE IF open
  THEN RunsOf(Tail(ts),
              [runs EXCEPT ![Len(runs)] = Append(runs[Len(runs)], ts[1].content)], TRUE)
  ELSE RunsOf(Tail(ts), Append(runs, <<ts[1].content>>), TRUE)

\* the items of the List blocks of bs, block by block
RECURSIVE ListsOf(_)
ListsOf(bs) ==
  IF bs = <<>> THEN <<>>
  ELSE (IF bs[1].type = "List" THEN <<bs[1].items>> ELSE <<>>) \o ListsOf(Tail(bs))

OneListPerRun == ListsOf(blocks) = RunsOf(tokens, <<>>, FALSE)

AdjacentLists ==
  \E i \in 1..(Len(blocks) - 1) : blocks[i].type = "List" /\ blocks[i + 1].type = "List"

C10_NoAdjacentLists == pc = "done" => OneListPerRun /\ ~AdjacentLists

(***************************************************************************)
(* C10 as amended.  Every maximal run of consecutive ListItem tokens       *)
(* becomes exactly one List block holding the items' contents in order;    *)
(* two List blocks are adjacent in the output only when the token vector   *)
(* holds a token that yields no block and no inline content (Image,        *)
(* HtmlComment, Unknown), which can separate two runs without a trace.     *)
(***************************************************************************)
Traceless(t) ==
  t.type \notin {"Heading", "ListItem", "BlockQuote", "HorizontalRule", "Newline"}
    /\ ~IsInline(t)

C10_OneListPerRun ==
  pc = "done" =>
    /\ OneListPerRun
    /\ AdjacentLists => \E i \in 1..Len(tokens) : Traceless(tokens[i])

C10_Witness ==
  /\ pc = "done"
  /\ tokens = << ListItem(<<Text(<<"A">>)>>, FALSE, <<>>),
                 ListItem(<<Text(<<"B">>)>>, TRUE, <<1>>), Text(<<"a">>) >>
  /\ blocks[1] = BlockList(<< <<Text(<<"A">>)>>, <<Text(<<"B">>)>> >>)


(***************************************************************************)
(* C11, C12: style resolution.                                             *)
(***************************************************************************)
\* load_config has returned the table of a source with one element section
Resolved == entry = "config" /\ pc = "configured"
SourceOf(element, table) == Some(Toml(Section(element, TTable(table))))
SectionSources == {SourceOf(e, t) : e \in Elements, t \in StyleTables}

SameValue(a, b) == a.t = b.t /\ a.v = b.v
Holds(table, key, value) == key \in DOMAIN table /\ SameValue(table[key], value)

\* <<key, value, field, stored>>: the overrides that take effect, and what the
\* descriptor then holds
StoredOverrides ==
  { <<"size", TInteger(20), "size", 20>>,
    <<"size", TInteger(300), "size", 44>>,
    <<"size", TInteger(-1), "size", 255>>,
    <<"beforespacing", TFloat(15), "before_spacing", 15>>,
    <<"afterspacing", TFloat(20), "after_spacing", 20>>,
    <<"textcolor", Rgb(TInteger(255), TInteger(128), TInteger(64)), "text_color",
      Some(<<255, 128, 64>>)>>,
    <<"textcolor", Rgb(TInteger(256), TInteger(0), TInteger(-1)), "text_color",
      Some(<<0, 0, 255>>)>>,
    <<"backgroundcolor", Rgb(TInteger(255), TInteger(255), TInteger(255)),
      "background_color", Some(<<255, 255, 255>>)>>,
    <<"alignment", TString("left"), "alignment", Some("Left")>>,
    <<"alignment", TString("center"), "alignment", Some("Center")>>,
    <<"alignment", TString("right"), "alignment", Some("Right")>>,
    <<"alignment", TString("justify"), "alignment", Some("Justify")>>,
    <<"alignment", TString(""), "alignment", Some("Left")>>,
    <<"alignment", TString("centre"), "alignment", Some("Left")>>,
    <<"alignment", TString("Center"), "alignment", Some("Left")>>,
    <<"fontfamily", TString("roboto"), "font_family", Some("Roboto")>>,
    <<"fontfamily", TString("helvetica"), "font_family", Some("Roboto")>>,
    <<"bold", TBoolean(TRUE), "bold", TRUE>>,
    <<"bold", TBoolean(FALSE), "bold", FALSE>>,
    <<"italic", TBoolean(TRUE), "italic", TRUE>>,
    <<"italic", TBoolean(FALSE), "italic", FALSE>>,
    <<"underline", TBoolean(TRUE), "underline", TRUE>>,
    <<"underline", TBoolean(FALSE), "underline", FALSE>>,
    <<"strikethrough", TBoolean(TRUE), "strikethrough", TRUE>>,
    <<"strikethrough", TBoolean(FALSE), "strikethrough", FALSE>> }

\* the same table as the claim states it: a well-typed value (an integer size,
\* components within 0..255, one of the four alignments) is stored as it is,
\* and any other value is ignored
StatedOverrides ==
  { o \in StoredOverrides :
      /\ o[1] = "size" => o[2].v \in 0..255
      /\ o[1] = "alignment" => o[2].v \in {"left", "center", "right", "justify"}
      /\ o[1] = "textcolor" => o[4] = Some(<<255, 128, 64>>) }
    \cup { <<"size", TInteger(300), "size", 300>>, <<"size", TInteger(-1), "size", -1>> }

\* what field f of the descriptor must hold after the overrides of the table
Merged(overrides, table, default, f) ==
  IF \E o \in overrides : o[3] = f /\ Holds(table, o[1], o[2])
  THEN (CHOOSE o \in overrides : o[3] = f /\ Holds(table, o[1], o[2]))[4]
  ELSE default[f]

Fields == DOMAIN DefaultBasicTextStyle

\* the built-in table with the descriptor of the element merged from the table
MergedTable(overrides, element, table) ==
  [DefaultStyleMatch EXCEPT
     ![FieldOf(element)] =
       [f \in Fields |-> Merged(overrides, table, DefaultStyleMatch[FieldOf(element)], f)]]

\* <<source, resolved table>> for every source with one element section
MergedCases(overrides) ==
  { <<SourceOf(e, t), Some(MergedTable(overrides, e, t))>> :
      e \in Elements, t \in StyleTables }

C11_CasesAsStated == MergedCases(StatedOverrides)
C11_Cases == MergedCases(StoredOverrides)

\* C11 as stated: every field of every descriptor is the override value when it
\* is present and well-typed, and the default otherwise
C11_OverrideOrDefault ==
  (Resolved /\ config \in SectionSources) => <<config, style>> \in C11_CasesAsStated

\* C11: load_config never fails, and style resolution is a field-by-field merge:
\* a missing or type-mismatched value keeps the default, of that field and of
\* every other; a present one is stored, a size and a colour component reduced
\* modulo 256, any string that names no alignment as Left, any font family as
\* Roboto
C11_FieldByField ==
  /\ Resolved => style # None
  /\ (Resolved /\ config \in {Some(NoFile), Some(BadToml)}) => style = Some(DefaultStyleMatch)
  /\ (Resolved /\ config \in SectionSources) => <<config, style>> \in C11_Cases

Heading1 == <<"heading", "1">>

C11_Witness ==
  /\ Resolved
  /\ config = SourceOf(Heading1, ("size" :> TInteger(20)))
  /\ style[1].heading_1 = [DefaultStyleMatch.heading_1 EXCEPT !.size = 20]
  /\ style[1].heading_1.alignment = Some("Center")
  /\ style[1].heading_1.bold

UnknownAlignments == {"", "centre", "Center"}

AlignmentSource(element, value) == SourceOf(element, ("alignment" :> value))

\* C12 as stated: an alignment string that is none of left, center, right,
\* justify leaves the element's default alignment
C12_UnrecognizedIgnored ==
  \A e \in Elements, a \in UnknownAlignments :
    (Resolved /\ config = AlignmentSource(e, TString(a)))
      => style[1][FieldOf(e)].alignment = DefaultStyleMatch[FieldOf(e)].alignment

\* C12: an alignment string that is none of left, center, right, justify
\* resolves to Left, whatever the element's default; only an alignment that is
\* no string is ignored
C12_UnrecognizedIsLeft ==
  \A e \in Elements :
    /\ \A a \in UnknownAlignments :
         (Resolved /\ config = AlignmentSource(e, TString(a)))
           => style[1][FieldOf(e)].alignment = Some("Left")
    /\ (Resolved /\ config = AlignmentSource(e, TInteger(42)))
         => style[1][FieldOf(e)].alignment = DefaultStyleMatch[FieldOf(e)].alignment

C12_Witness ==
  /\ Resolved
  /\ config = AlignmentSource(Heading1, TString("centre"))
  /\ DefaultStyleMatch.heading_1.alignment = Some("Center")
  /\ style[1].heading_1.alignment = Some("Left")


(***************************************************************************)
(* C13, C14: the order of the steps of parse(markdown, path) and how its   *)
(* failures reach the caller.                                              *)
(***************************************************************************)
NothingLater ==
  /\ config = None /\ style = None
  /\ idx = 0 /\ blocks = <<>> /\ current_inline_content = <<>>
  /\ document = None
  /\ ~written

\* C13: when the lexer returns an error, parse(markdown, path) returns
\* MdpError::ParseError and no later step has happened: no style source is
\* loaded, no block is grouped, no document is created, nothing is written; and
\* whenever one of those steps has happened the lexer had returned Ok
C13_ParseErrorAborts ==
  /\ (entry = "markdown" /\ pc = "lex_err") => (result = "ParseError" /\ NothingLater)
  /\ (entry = "markdown" /\ ~NothingLater) => (error = "" /\ result # "ParseError")

C13_Witness ==
  /\ entry = "markdown" /\ pc = "lex_err"
  /\ input = <<"*", "a">>
  /\ error = "UnknownToken" /\ result = "ParseError"
  /\ NothingLater

\* C14: every failure of the backend while the document is built, a font family
\* that cannot be loaded included, comes back from parse(markdown, path) as
\* MdpError::PdfError; the conversion never ends by panicking
C14_BackendFailureReturned ==
  (entry = "markdown" /\ Lexed) => result \in {"", "Ok", "PdfError"}

(***************************************************************************)
(* C15: malformed links and images.                                        *)
(***************************************************************************)
MalformedInputs ==
  { <<"[", "l">>, <<"[">>, <<"[", "l", "]", "(", "u">>, <<"[", "l", "]", "(">>,
    <<"!", "[", "i">>, <<"!", "[">>, <<"!", "[", "i", "]", "(", "u">>,
    <<"!", "[", "i", "]", "(">>, <<"a", " ", "[", "l">>,
    <<"a", " ", "[", "l", "]", "(", "u">> }

\* C15: Lexer::parse returns Err, and no Link or Image token, on a '[' with no
\* closing ']', on a '(' after ']' with no closing ')', and on an image with a
\* missing ']' or a missing ')'
C15_MalformedFails ==
  (ParseEnded /\ input \in MalformedInputs) => (pc = "lex_err" /\ tokens = <<>>)

(***************************************************************************)
(* C16: HTML comments.                                                     *)
(***************************************************************************)
ClosesAt(s, i) == i + 2 <= Len(s) /\ s[i] = "-" /\ s[i + 1] = "-" /\ s[i + 2] = ">"
Closes(s) == \E i \in 1..Len(s) : ClosesAt(s, i)

\* the texts whose first closing marker is the one appended to them
CommentTexts ==
  {c \in Seqs(CommentChars, MaxText) : \A i \in 1..Len(c) : ~ClosesAt(c \o CommentClose, i)}

\* <<input, tokens>> for a comment closed after the text c
C16_Cases ==
  { << pre[1] \o CommentOpen \o c \o CommentClose \o post[1],
       pre[2] \o <<HtmlComment(c)>> \o post[2] >> :
      pre \in CommentContexts, c \in CommentTexts, post \in CommentTails }
C16_Inputs == InputsOf(C16_Cases)

\* an opening marker that no closing marker follows
C16_Unclosed ==
  {pre[1] \o CommentOpen \o c \o post[1] :
     pre \in CommentContexts, c \in {d \in Seqs(CommentChars, MaxText) : ~Closes(d)},
     post \in CommentTails}

\* C16: "<!--", a text C and the first "-->" after it give HtmlComment(C) with C
\* exactly the characters between the markers, newlines included, and scanning
\* resumes right after "-->"; an opening "<!--" that no "-->" follows makes the
\* parse return UnexpectedEndOfInput
C16_Comment ==
  /\ (ParseEnded /\ input \in C16_Inputs) => (Lexed /\ <<input, tokens>> \in C16_Cases)
  /\ (ParseEnded /\ input \in C16_Unclosed)
       => (pc = "lex_err" /\ error = "UnexpectedEndOfInput" /\ tokens = <<>>)

C16_Witness ==
  /\ Lexed
  /\ input = <<"a", "\n">> \o CommentOpen \o <<"c", "\n">> \o CommentClose \o <<"b">>
  /\ tokens = <<Text(<<"a">>), Newline, HtmlComment(<<"c", "\n">>), Text(<<"b">>)>>

(***************************************************************************)
(* C17, C18: list items.                                                   *)
(***************************************************************************)
ItemA(children) == ListItem(<<Text(<<"A">>)>> \o children, FALSE, <<>>)
ItemN(m, children) == ListItem(<<Text(<<"N">>)>> \o children, m[2], m[3])
ItemM == ListItem(<<Text(<<"M">>)>>, FALSE, <<>>)

\* the trees that nesting by indentation alone gives: a marker line indented
\* more than the item being parsed is its child, any other ends it
TwoLineTree(i2, m2) ==
  IF i2[2] > 0 THEN <<ItemA(<<ItemN(m2, <<>>)>>)>> ELSE <<ItemA(<<>>), ItemN(m2, <<>>)>>

ThreeLineTree(i2, m2, i3) ==
  IF i2[2] = 0
  THEN (IF i3[2] > 0 THEN <<ItemA(<<>>), ItemN(m2, <<ItemM>>)>>
        ELSE <<ItemA(<<>>), ItemN(m2, <<>>), ItemM>>)
  ELSE IF i3[2] > i2[2] THEN <<ItemA(<<ItemN(m2, <<ItemM>>)>>)>>
  ELSE IF i3[2] > 0 THEN <<ItemA(<<ItemN(m2, <<>>), ItemM>>)>>
  ELSE <<ItemA(<<ItemN(m2, <<>>)>>), ItemM>>

C17_Cases ==
  {<<TwoLines(i2, m2), TwoLineTree(i2, m2)>> : i2 \in Indents, m2 \in Markers}
    \cup {<<ThreeLines(i2, m2, i3), ThreeLineTree(i2, m2, i3)>> :
            i2 \in Indents, m2 \in Markers, i3 \in Indents}

\* C17: list nesting follows indentation only: a list-marker line indented
\* strictly more than the list item being parsed becomes a nested ListItem
\* appended to that item's content, and a line indented as much or less ends the
\* item and becomes a sibling or an outer item
C17_NestedByIndentation ==
  (ParseEnded /\ input \in ListInputs) => (Lexed /\ <<input, tokens>> \in C17_Cases)

ItemOrd(n, children) == ListItem(<<Text(<<"a">>)>> \o children, TRUE, <<n[2]>>)

\* <<input, tokens>> for ordered items alone, in sequence, nested in each other
\* and nested in an unordered item
C18_Cases ==
  {<<OrderedLine(n), <<ItemOrd(n, <<>>)>> >> : n \in Numbers}
    \cup {<<OrderedLine(n) \o <<"\n">> \o OrderedLine(m),
            <<ItemOrd(n, <<>>), ItemOrd(m, <<>>)>> >> : n \in Numbers, m \in Numbers}
    \cup {<<OrderedLine(n) \o <<"\n", " ", " ">> \o OrderedLine(m),
            <<ItemOrd(n, <<ItemOrd(m, <<>>)>>)>> >> : n \in Numbers, m \in Numbers}
    \cup {<<<<"-", " ", "A", "\n", " ", " ">> \o OrderedLine(n),
            <<ItemA(<<ItemOrd(n, <<>>)>>)>> >> : n \in Numbers}

\* C18: in every token tree that Lexer::parse returns, at every depth, a ListItem
\* has number = Some(n) if and only if it is ordered, and n is the value of the
\* digit run before the '.' of its marker
C18_NumberIffOrdered ==
  /\ Lexed => \A t \in TokensOf(tokens) :
                t.type = "ListItem" => (t.ordered <=> t.number # <<>>)
  /\ (ParseEnded /\ input \in OrderedInputs) => (Lexed /\ <<input, tokens>> \in C18_Cases)

C18_Witness ==
  /\ Lexed
  /\ input = <<"1", "0", ".", " ", "a", "\n", " ", " ", "0", "2", ".", " ", "a">>
  /\ tokens = << ListItem(<<Text(<<"a">>), ListItem(<<Text(<<"a">>)>>, TRUE, <<2>>)>>,
                          TRUE, <<10>>) >>

(***************************************************************************)
(* C19, C20: heading levels, and how the parse ends.                       *)
(***************************************************************************)
\* C19: every Heading token that Lexer::parse returns has a level in 1..6
C19_HeadingLevel ==
  Lexed => \A t \in TokensOf(tokens) : t.type = "Heading" => t.level \in HeadingLevels

\* C20: Lexer::parse ends on every input, with Ok or with Err, and every
\* iteration of its loop that goes on has moved the cursor forward by at least
\* one character
C20_Terminates ==
  /\ [](entry = "markdown" => pc # "lex_panic")
  /\ [][(entry = "markdown" /\ pc = "lex" /\ pc' = "lex") => position' > position]_vars


(***************************************************************************)
(* C21: the cursor of the lexer.                                           *)
(***************************************************************************)
\* the operations that move the cursor by themselves, applied at the cursor
LookaheadForward ==
  /\ check_horizontal_rule(input, position).pos >= position
  /\ skip_whitespace(input, position) >= position
  /\ count_backticks(input, position).pos >= position
  /\ read_until_newline(input, position).pos >= position

\* C21: during a run of Lexer::parse the cursor never decreases: every step of
\* the parse leaves it unchanged or moves it forward, and the lookahead helpers
\* applied at the cursor do not move it backward
C21_CursorForward ==
  /\ [][entry = "markdown" => position' >= position]_vars
  /\ [](entry = "markdown" => LookaheadForward)

C21_Witness ==
  /\ entry = "markdown" /\ pc = "lex"
  /\ input = <<">", " ", "q", "\n", "-", "-", "-", "\n", "[", "l", "]", "(", "u", ")">>
  /\ position = 4
  /\ check_horizontal_rule(input, position).pos = 7

(***************************************************************************)
(* C22: line-start dispatch behind an indentation.                         *)
(***************************************************************************)
\* <<input, tokens>>: the marker line gives the token of its kind whatever
\* spaces or tabs stand before it
C22_Cases ==
  {<<pre[1] \o ind \o l[1], pre[2] \o <<l[2]>> >> :
     pre \in LineContexts, ind \in LineIndents, l \in MarkerLines}

\* C22: a '#', '>', '-'/'+' or ordered-list marker preceded on its line only by
\* spaces or tabs is tokenized as a heading, blockquote or list item, exactly as
\* in column 0, and never makes the parse fail or turn into plain text
C22_IndentedDispatch ==
  (ParseEnded /\ input \in IndentedInputs) => (Lexed /\ <<input, tokens>> \in C22_Cases)

(***************************************************************************)
(* C23: indentation by a tab.                                              *)
(***************************************************************************)
\* <<input, tokens>>: the line indented by a tab or by four spaces is a nested
\* ListItem of the item above it, with its whole text
C23_Cases ==
  {<<FirstLine \o ind \o m[1] \o t, <<ItemA(<<ListItem(<<Text(t)>>, m[2], m[3])>>)>> >> :
     ind \in TabIndents, m \in Markers, t \in NestedTexts}

\* C23: a tab counts as 4 columns of indentation: a list-marker line indented by
\* one tab under a list item at indentation 0 is a nested ListItem child of that
\* item with its full text as content, the same token tree as with 4 spaces, and
\* skipping the indentation never moves the cursor past the marker
C23_TabIsFourColumns ==
  (ParseEnded /\ input \in TabInputs) => (Lexed /\ <<input, tokens>> \in C23_Cases)

(***************************************************************************)
(* C24: backtick runs inside a fenced code block.                          *)
(***************************************************************************)
\* <<input, tokens>>: the code between the fences, whatever run it holds
C24_Cases == {<<FenceRunInput(r[1], r[2]), <<Code(<<>>, FenceRunCode(r[2]))>> >> : r \in FenceRuns}

\* C24: a fenced block opened by k >= 2 backticks is closed only by the next run
\* of exactly k backticks, and the content of the Code token is exactly the
\* characters between the opening line and that run, trimmed: a run of another
\* length inside the block is kept unchanged, no character is dropped or added
C24_FenceContent ==
  (ParseEnded /\ input \in FenceRunInputs) => (Lexed /\ <<input, tokens>> \in C24_Cases)

(***************************************************************************)
(* C25, C26: what group_tokens does with code and with inline tokens.      *)
(***************************************************************************)
\* group_tokens has returned
Grouped == pc \in {"done", "built", "returned"}

MultiLineCode(t) == t.type = "Code" /\ \E i \in 1..Len(t.text) : t.text[i] = "\n"
OneLineCodeToken(t) == t.type = "Code" /\ \A i \in 1..Len(t.text) : t.text[i] # "\n"
IsCodeBlockBlock(b) == b.type = "CodeBlock"
IsParagraphBlock(b) == b.type = "Paragraph"

\* the tokens of the Paragraph blocks, in order
RECURSIVE ParagraphTokens(_)
ParagraphTokens(bs) ==
  IF bs = <<>> THEN <<>>
  ELSE (IF IsParagraphBlock(Head(bs)) THEN Head(bs).content ELSE <<>>)
         \o ParagraphTokens(Tail(bs))

CodeBlockOf(t) == BlockCodeBlock(t.language, t.text)
MapCodeBlocks(ts) == [i \in 1..Len(ts) |-> CodeBlockOf(ts[i])]

\* C25: group_tokens emits a CodeBlock for a Code token if and only if its
\* content contains a newline; a Code token with no newline in its content (a
\* fenced block of one line with a language tag too) joins the pending inline
\* tokens, with the newline counter reset to 0 and no block emitted, and ends up
\* inside a Paragraph
C25_CodeBlockIffNewline ==
  /\ [](Grouped =>
          /\ SelectSeq(blocks, IsCodeBlockBlock) = MapCodeBlocks(SelectSeq(tokens, MultiLineCode))
          /\ SelectSeq(ParagraphTokens(blocks), OneLineCodeToken)
               = SelectSeq(tokens, OneLineCodeToken))
  /\ [][(pc = "group" /\ idx < Len(tokens) /\ OneLineCodeToken(tokens[idx + 1]))
          => /\ newline_count' = 0
             /\ blocks' = blocks
             /\ current_inline_content' = Append(current_inline_content, tokens[idx + 1])]_vars

C25_Witness ==
  /\ Grouped
  /\ tokens = <<Code(<<"r">>, <<"c">>), Newline, Code(<<"r">>, <<"c", "\n", "d">>)>>
  /\ blocks = <<BlockParagraph(<<Code(<<"r">>, <<"c">>), Newline>>),
                BlockCodeBlock(<<"r">>, <<"c", "\n", "d">>)>>

\* what a block holds of the tokens it was made from: the inline tokens of a
\* Paragraph without its soft breaks, the token of a block, the contents of the
\* items of a List
NotNewline(t) == t.type # "Newline"
ItemContent(content) == [type |-> "ListItem", content |-> content]
BlockTrace(b) ==
  CASE b.type = "Paragraph" -> SelectSeq(b.content, NotNewline)
    [] b.type = "Heading" -> <<Heading(b.content, b.level)>>
    [] b.type = "List" -> [i \in 1..Len(b.items) |-> ItemContent(b.items[i])]
    [] b.type = "BlockQuote" -> <<BlockQuote(b.content[1].text)>>
    [] b.type = "CodeBlock" -> <<Code(b.language, b.text)>>
    [] b.type = "HorizontalRule" -> <<HorizontalRule>>
    [] OTHER -> <<>>

RECURSIVE BlocksTrace(_)
BlocksTrace(bs) == IF bs = <<>> THEN <<>> ELSE BlockTrace(Head(bs)) \o BlocksTrace(Tail(bs))

\* the tokens that group_tokens keeps: all but Newline, Image and HtmlComment
KeptToken(t) ==
  t.type \in {"Text", "Emphasis", "StrongEmphasis", "Link", "Code", "Heading", "ListItem",
              "BlockQuote", "HorizontalRule"}
TraceOfToken(t) == IF t.type = "ListItem" THEN ItemContent(t.content) ELSE t
TokensTrace(ts) ==
  [i \in 1..Len(SelectSeq(ts, KeptToken)) |-> TraceOfToken(SelectSeq(ts, KeptToken)[i])]

\* the tokens consumed so far, and the inline tokens still pending
Consumed == IF pc = "group" THEN SubSeq(tokens, 1, idx) ELSE tokens
Pending == IF pc = "group" THEN SelectSeq(current_inline_content, NotNewline) ELSE <<>>

\* C26: group_tokens keeps the order of the tokens and loses no inline token: at
\* every point of its loop the blocks emitted, followed by the pending inline
\* tokens, hold every Text, Emphasis, Link, single-line Code and block token
\* consumed so far exactly once and in input order (so the pending tokens are a
\* Paragraph right before the block of the token that flushes them), no two
\* Paragraphs are adjacent, and nothing is pending after the return
C26_OrderKept ==
  (pc \in {"group", "done", "built", "returned"}) =>
    /\ BlocksTrace(blocks) \o Pending = TokensTrace(Consumed)
    /\ \A i \in 1..(Len(blocks) - 1) :
         ~(IsParagraphBlock(blocks[i]) /\ IsParagraphBlock(blocks[i + 1]))

C26_Witness ==
  /\ Grouped
  /\ tokens = <<Text(<<"a">>), Heading(<<Text(<<"h">>)>>, 1), Link(<<"l">>, <<"u">>)>>
  /\ blocks = <<BlockParagraph(<<Text(<<"a">>)>>), BlockHeading(<<Text(<<"h">>)>>, 1),
                BlockParagraph(<<Link(<<"l">>, <<"u">>)>>)>>


(***************************************************************************)
(* C27, C28: what the document builder pushes for a block.                 *)
(***************************************************************************)
\* create_document has returned the document
Built == pc \in {"built", "returned"}

\* the descriptor a block is rendered with
DescriptorOf(b, sm) ==
  CASE b.type = "Heading" ->
         (CASE b.level = 1 -> sm.heading_1 [] b.level = 2 -> sm.heading_2
            [] b.level = 3 -> sm.heading_3 [] OTHER -> sm.text)
    [] b.type = "Paragraph" -> sm.text
    [] b.type = "List" -> sm.list_item
    [] b.type = "BlockQuote" -> sm.block_quote
    [] OTHER -> sm.code

HasContent(b) == b.type \in {"Heading", "Paragraph", "List", "BlockQuote", "CodeBlock"}
NotBreak(e) == e.kind # "Break"

\* spacing before, the content, spacing after
Spaced(b, sm) ==
  << Break(DescriptorOf(b, sm).before_spacing) >>
    \o SelectSeq(render_block(b, sm), NotBreak)
    \o << Break(DescriptorOf(b, sm).after_spacing) >>

RECURSIVE SpacedBlocks(_, _)
SpacedBlocks(bs, sm) ==
  IF bs = <<>> THEN <<>>
  ELSE (IF HasContent(Head(bs)) THEN Spaced(Head(bs), sm) ELSE render_block(Head(bs), sm))
         \o SpacedBlocks(Tail(bs), sm)

\* C27: for every block that the document builder renders, the elements pushed
\* to the backend are a spacing of the before_spacing of the block's descriptor,
\* then the content of the block, then a spacing of its after_spacing
C27_SpacingAround ==
  Built => document[1].elements = SpacedBlocks(blocks, style[1])

\* the entries of a rendered list and their markers: genpdfi's UnorderedList
\* gives every entry the same bullet and holds no entry inside another
Bullet == [marker |-> "bullet", number |-> 0]
Numbered(n) == [marker |-> "number", number |-> n]
EntryMarkers(list) == [i \in 1..Len(list.items) |-> Bullet]

\* the markers a run of ListItem tokens calls for: the number of an ordered
\* item, the fixed marker of an unordered one, nested items after their parent
RECURSIVE ItemMarkers(_)
RECURSIVE ChildMarkers(_)
ItemMarkers(t) ==
  << (IF t.ordered THEN Numbered(t.number[1]) ELSE Bullet) >> \o ChildMarkers(t.content)
ChildMarkers(ts) ==
  IF ts = <<>> THEN <<>>
  ELSE (IF Head(ts).type = "ListItem" THEN ItemMarkers(Head(ts)) ELSE <<>>)
         \o ChildMarkers(Tail(ts))

IsListItem(t) == t.type = "ListItem"
OnlyListItems == tokens # <<>> /\ \A i \in 1..Len(tokens) : IsListItem(tokens[i])

\* C28: rendering a List block emits one list entry per item and one more for
\* every nested ListItem among an item's children; an ordered item is rendered
\* with its number and an unordered one with the fixed marker
C28_ListEntries ==
  (Built /\ OnlyListItems) =>
    /\ document[1].elements[1].kind = "UnorderedList"
    /\ EntryMarkers(document[1].elements[1]) = ChildMarkers(tokens)

(***************************************************************************)
(* C29: reads of the input beyond its end.                                 *)
(***************************************************************************)
\* C29: Lexer::parse never reads the input outside 0..len-1 through a checked
\* index or slice, also after the cursor has moved beyond the length of the
\* input; so it returns Ok or Err and never panics
C29_ReadsInBounds ==
  entry = "markdown" =>
    /\ error # "index out of bounds"
    /\ result # "panic"
    /\ (pc = "lex" /\ position < Len(input)) => ~is_after_special_token_panics(input, position)

(***************************************************************************)
(* C30: integers outside 0..255.                                           *)
(***************************************************************************)
\* <<source, field of StyleMatch, field of the descriptor, value stored>>
C30_Cases ==
  {<<Some(SizeSource(e, n[1])), FieldOf(e), "size", n[2]>> : e \in Elements, n \in RangeValues}
    \cup {<<Some(ColourSource(e, k[1], c, n[1])), FieldOf(e), k[2], Some(Triple(c, n[2]))>> :
            e \in Elements, k \in ColourKeys, c \in Components, n \in RangeValues}

\* C30: an integer override of size, or of an r/g/b colour component, outside
\* 0..255 is stored reduced modulo 256 (300 as 44, 256 as 0); it is neither
\* rejected nor ignored in favour of the default
C30_TruncatingCast ==
  (Resolved /\ config \in {Some(f) : f \in RangeSources}) =>
    \E c \in C30_Cases : c[1] = config /\ style[1][c[2]][c[3]] = c[4]

C30_Witness ==
  /\ Resolved
  /\ config = Some(SizeSource(Heading1, 300))
  /\ style[1].heading_1.size = 44
  /\ DefaultStyleMatch.heading_1.size = 14

====
